---- MODULE Spec2Model ----
(***************************************************************************)
(* Model of the keyword-mode collector of Medicine_Collector:              *)
(*   - the keyword ledgers keywords_todo.txt / keywords_done.txt           *)
(*     (utils/keyword_manager.py), as text files;                          *)
(*   - the seen-ID set processed_medicine_ids.txt (utils/file_utils.py);   *)
(*   - the daily request counter of search_api (api/naver_api.py);         *)
(*   - collect_medicines / _process_keyword (collector.py), the signal     *)
(*     handlers (utils/safety.py) and the checkpoint (utils/checkpoint.py).*)
(* A text file is a sequence of one-character strings; "\n" ends a line.   *)
(***************************************************************************)
EXTENDS Integers, Sequences, FiniteSets, TLC

VARIABLES
    todoFile,       \* keywords_todo.txt: [exists, text]
    doneFile,       \* keywords_done.txt: [exists, text]
    lastOp,         \* history: the ledger operation that returned last, and its keyword
    doneAppends,    \* history: how often each keyword was appended to keywords_done.txt
    seenFile,       \* processed_medicine_ids.txt: [exists, text]
    storeWrites,    \* history: how often the JSON record of each ID was written
    savedIncr,      \* history: how often each ID increased stats['total_saved']
    totalSaved,     \* stats['total_saved']
    wpc,            \* position of each worker thread in fetch/save of one item
    wid,            \* the RecordID of the item the worker handles
    wsnap,          \* processed_ids, the set is_duplicate_medicine read
    wtmp,           \* the value of total_saved the worker loaded for += 1
    wres,           \* what is_duplicate_medicine told the worker: "none", "dup", "new"
    wknown,         \* history: the ID was already recorded when the worker's check began
    newInRun,       \* history: how often each ID was reported new in this process
    marked,         \* history: the IDs is_duplicate_medicine has recorded
    saveCalls,      \* number of items handled so far
    quotaFile,      \* daily_request_count.json: [state, date, count]
    today,          \* the date datetime.now() gives
    qpc,            \* position of each worker thread in search_api's quota check
    qdata,          \* request_data of each worker
    qres,           \* how the worker's last call ended: "none", "admitted", "refused", "error"
    admittedOn,     \* history: per date, the calls that passed the quota check
    quotaCalls,     \* number of calls of search_api so far
    mpc,            \* main(): "down" (no process), "load", "collect", "exiting"
    cpc,            \* collect_medicines: "off", "wait", "batch", "finally", "ended"
    runs,           \* processes started so far
    max_items,      \* --max-items, 0 for none
    exitKind,       \* how the last process ended: "none", "normal", "force_exit_handler", "watchdog"
    collector_shutdown_requested,   \* collector.shutdown_requested
    safety_shutdown_requested,      \* utils.safety.shutdown_requested
    sigints,        \* SIGINTs this process has received
    watchdog,       \* safety.watchdog_thread: "watching", "armed", "done"
    keywords,       \* the list collect_medicines is called with
    current_index,
    keywords_to_process,
    max_parallel_keywords,
    futures,        \* the keywords of the futures dict
    doneBatch,      \* what is left of "done" in the loop "for future in done"
    keyword_results,    \* the keys of keyword_results
    completed_count,
    resumed,        \* history: this pass found a checkpoint
    task,           \* per keyword, the state of its _process_keyword call
    refused,        \* history: keywords whose search the quota check refused
    lastStarted,    \* history: the keyword whose _process_keyword call began last, <<>> for none
    stopped,        \* history: the keywords whose worker returned, in this process, before it
                    \* had attempted every item found
    checkpoint,     \* checkpoint.json: [exists, current_keyword, total_saved]
    ckpc,           \* the process that uses checkpoint.json as text: "down", "loaded", "running"
    ckFile,         \* checkpoint.json as text: [exists, text]
    ckBackup,       \* the checkpoint.json.backup.<timestamp> load_checkpoint has just made
    ckLoaded,       \* the file load_checkpoint has just returned as a dict, NoFile for None
    ckStats,        \* self.stats of that process
    crpc,           \* crawler/main.py main(): "down", "loop"
    crRuns,         \* runs of main() started so far
    crArgs,         \* args.start, args.end, args.resume, args.use_missing
    calculated,     \* what calculate_missing_docids returned
    processed_docids,   \* the processed docIds main() loaded
    missing_docids,     \* the list given to shuffle_docids
    shuffled_docids,
    idx,            \* passes of the loop made so far
    invalid_docids, \* the set main() holds
    invalidFile,    \* the docIds in invalid_docids.txt
    processedFile,  \* the docIds in Processed_medicine_ids.txt and the JSON file names
    softFailed,     \* history: docIds whose fetch ended with the retries exhausted
    resumeFile,     \* crawl_resume.txt: [exists, text]
    missingFile,    \* missing_docids.txt: [exists, list], the docIds of its lines
    fcalls,         \* calls of a fetch client made so far
    ffails,         \* requests that did not end in a 200 so far
    fpc,            \* per thread: "idle", "loop", "request", "sent"
    call,           \* per thread, the locals of its call: client, retry_count,
                    \* backoff_time, elapsed (the time since last_request_time, up to
                    \* one second), sleep (what is left of time.sleep), resp (the
                    \* latest response), the history attempts (the requests of this
                    \* call so far) and the history delays (for each response
                    \* that led to another attempt, whether it was a 429 without
                    \* Retry-After or a 5xx, and the time slept after it)
    fends,          \* per thread, how its latest call ended, "" while it has not
    since,          \* per client of the collector, the time since its latest request,
                    \* up to one second
    gap,            \* history: per such client, the time between its two latest requests,
                    \* up to one second
    ppc,            \* the pool's collect_medicines: "off", "wait", "ended"
    pindex,         \* its current_index
    pkeywords,      \* its keywords_to_process
    pcap,           \* its max_parallel_keywords
    pfutures,       \* the keys of its futures dict
    pqueue,         \* the executor's work queue
    prunning,       \* the futures a pool thread is running
    pfinished,      \* the finished futures still in the dict
    presults,       \* the keys of its keyword_results
    pcompleted,     \* its completed_count
    fetching,       \* the call of MedicineFetcher.fetch_medicine_data: pc, docid,
                    \* retry_count, its latest response and what it returned
    urlCalls,       \* calls of fetch_medicine_data made so far
    idRuns,         \* processes that determine record IDs, so far
    idKey,          \* the key of str hashes in the running process
    idDay,          \* the day of the month datetime.now() gives
    idGiven,        \* history: the records standardized and the ID each call gave
    idCalls         \* calls of standardize_medicine_data so far

ledgerVars == <<todoFile, doneFile, lastOp, doneAppends>>

dedupVars == <<seenFile, storeWrites, savedIncr, totalSaved, wpc, wid, wsnap, wtmp,
               wres, wknown, newInRun, marked, saveCalls>>

quotaVars == <<quotaFile, today, qpc, qdata, qres, admittedOn, quotaCalls>>

runVars == <<mpc, cpc, runs, max_items, exitKind, collector_shutdown_requested,
             safety_shutdown_requested, sigints, watchdog, keywords, current_index,
             keywords_to_process, max_parallel_keywords, futures, doneBatch,
             keyword_results, completed_count, resumed, task, refused, lastStarted, stopped,
             checkpoint>>

ckptVars == <<ckpc, ckFile, ckBackup, ckLoaded, ckStats>>

\* the variables of the parts that follow the collection process
crawlVars == <<crpc, crRuns, crArgs, calculated, processed_docids, missing_docids,
               shuffled_docids, idx, invalid_docids, invalidFile, processedFile,
               softFailed, resumeFile, missingFile>>

fetchVars == <<fcalls, ffails, fpc, call, fends, since, gap>>

poolVars == <<ppc, pindex, pkeywords, pcap, pfutures, pqueue, prunning, pfinished,
              presults, pcompleted>>

urlVars == <<fetching, urlCalls>>

idVars == <<idRuns, idKey, idDay, idGiven, idCalls>>

laterVars == <<ckptVars, crawlVars, fetchVars, poolVars, urlVars, idVars>>

vars == <<ledgerVars, dedupVars, quotaVars, runVars, laterVars>>

\* what a step of the ledger operations leaves alone
LedgerFrame == UNCHANGED <<dedupVars, quotaVars, runVars, laterVars>>

\* what a step of the deduplicator leaves alone
DedupFrame == UNCHANGED <<ledgerVars, quotaVars, runVars, laterVars>>

\* what a call of search_api leaves alone
QuotaFrame == UNCHANGED <<ledgerVars, dedupVars, runVars, laterVars>>

----------------------------------------------------------------------------
(* Text files *)

NL == "\n"

NoFile == [exists |-> FALSE, text |-> <<>>]

File(t) == [exists |-> TRUE, text |-> t]

\* index of the first newline of t, 0 when there is none
FirstNL(t) ==
    IF \E i \in 1..Len(t) : t[i] = NL
    THEN CHOOSE i \in 1..Len(t) : t[i] = NL /\ \A j \in 1..(i-1) : t[j] # NL
    ELSE 0

RECURSIVE SplitLines(_)
\* the lines of a text, without their line ends (file iteration, str.splitlines)
SplitLines(t) ==
    IF t = <<>> THEN <<>>
    ELSE LET i == FirstNL(t) IN
         IF i = 0 THEN <<t>>
         ELSE <<SubSeq(t, 1, i-1)>> \o SplitLines(SubSeq(t, i+1, Len(t)))

\* [line.strip() for line in f if line.strip()]
ReadKeywordLines(f) ==
    IF f.exists THEN SelectSeq(SplitLines(f.text), LAMBDA l : l # <<>>) ELSE <<>>

RECURSIVE JoinLines(_)
\* '\n'.join(list): no newline after the last element
JoinLines(list) ==
    IF list = <<>> THEN <<>>
    ELSE IF Len(list) = 1 THEN list[1]
    ELSE list[1] \o <<NL>> \o JoinLines(Tail(list))

ToSet(s) == {s[i] : i \in DOMAIN s}

RECURSIVE Orders(_)
\* the orders in which iterating a Python set of strings can yield its elements
Orders(S) ==
    IF S = {} THEN {<<>>}
    ELSE UNION {{<<x>> \o r : r \in Orders(S \ {x})} : x \in S}

\* open(path, 'a').write(f"{line}\n")
AppendLine(text, line) == text \o line \o <<NL>>

----------------------------------------------------------------------------
(* Keywords.  KA, KB stand for the brand names of the built-in lists, KAB   *)
(* for a keyword that is the concatenation of two others.                  *)

KA == <<"a">>

KB == <<"b">>

KAB == <<"a", "b">>

KW == {KA, KB, KAB}

\* generate_initial_keywords()
InitialKeywordList == <<KA, KB>>

\* extensive_keywords of generate_extensive_initial_keywords
ExtensiveKeywordList == <<KA, KAB>>

\* the keyword candidates that the stored JSON records can yield
JsonKeywords == {KB, KAB}

\* longest keywords_done.txt the model follows
MaxFileLen == 5

\* a keyword is counted at most this often in doneAppends
MaxAppends == 2

TodoList == ReadKeywordLines(todoFile)

TodoSet == ToSet(TodoList)

DoneSet == ToSet(ReadKeywordLines(doneFile))

RECURSIVE UniqueNotIn(_, _)
\* the first occurrences of the elements of list that are not in excl
UniqueNotIn(list, excl) ==
    IF list = <<>> THEN <<>>
    ELSE IF Head(list) \in excl THEN UniqueNotIn(Tail(list), excl)
    ELSE <<Head(list)>> \o UniqueNotIn(Tail(list), excl \cup {Head(list)})

RECURSIVE RemoveFirst(_, _)
\* list.remove(k)
RemoveFirst(list, k) ==
    IF list = <<>> THEN <<>>
    ELSE IF Head(list) = k THEN Tail(list)
    ELSE <<Head(list)>> \o RemoveFirst(Tail(list), k)

----------------------------------------------------------------------------
(* load_keywords *)

\* the list load_keywords returns
LoadKeywordsList(todoF, doneF) ==
    LET done == ToSet(ReadKeywordLines(doneF)) IN
    IF ~todoF.exists
    THEN SelectSeq(InitialKeywordList, LAMBDA k : k \notin done)
    ELSE UniqueNotIn(ReadKeywordLines(todoF), done)

\* keywords_todo.txt after load_keywords
LoadKeywordsTodo(todoF, doneF) ==
    LET list == LoadKeywordsList(todoF, doneF) IN
    IF ~todoF.exists THEN File(JoinLines(list))
    ELSE IF Len(ReadKeywordLines(todoF)) # Len(list) THEN File(JoinLines(list))
    ELSE todoF

LoadKeywords ==
    /\ LedgerFrame
    /\ todoFile' = LoadKeywordsTodo(todoFile, doneFile)
    /\ lastOp' = [op |-> "load", kw |-> <<>>]
    /\ UNCHANGED <<doneFile, doneAppends>>

----------------------------------------------------------------------------
(* update_keyword_progress *)

\* keywords_todo.txt after update_keyword_progress(k)
UpdateTodo(todoF, doneF, k) ==
    LET todo == ReadKeywordLines(todoF) IN
    IF k = <<>> THEN todoF
    ELSE IF k \in ToSet(todo) THEN File(JoinLines(RemoveFirst(todo, k)))
    ELSE todoF

\* the text written at the end of keywords_done.txt for keyword k
DoneAppend(text, k) == AppendLine(text, k)

\* keywords_done.txt after update_keyword_progress(k)
UpdateDone(doneF, k) ==
    IF k = <<>> \/ k \in ToSet(ReadKeywordLines(doneF)) THEN doneF
    ELSE File(DoneAppend(doneF.text, k))

UpdateKeywordProgress(k) ==
    /\ LedgerFrame
    /\ Len(doneFile.text) + Len(k) + 1 <= MaxFileLen
    /\ doneAppends[k] < MaxAppends
    /\ todoFile' = UpdateTodo(todoFile, doneFile, k)
    /\ doneFile' = UpdateDone(doneFile, k)
    /\ doneAppends' = IF doneFile' # doneFile
                      THEN [doneAppends EXCEPT ![k] = @ + 1] ELSE doneAppends
    /\ lastOp' = [op |-> "update", kw |-> k]

\* update_keyword_progress(k) for a keyword of Todo that is not in Done, in a
\* process that is ended after the rewrite of keywords_todo.txt and before the
\* append to keywords_done.txt
UpdateKeywordProgressKilled(k) ==
    /\ LedgerFrame
    /\ k \in ToSet(ReadKeywordLines(todoFile))
    /\ k \notin ToSet(ReadKeywordLines(doneFile))
    /\ todoFile' = UpdateTodo(todoFile, doneFile, k)
    /\ lastOp' = [op |-> "update killed", kw |-> k]
    /\ UNCHANGED <<doneFile, doneAppends>>

----------------------------------------------------------------------------
(* generate_extensive_initial_keywords *)

ExtensiveNew(todoF, doneF) ==
    LET existing == ToSet(ReadKeywordLines(doneF)) \cup ToSet(ReadKeywordLines(todoF))
    IN  SelectSeq(ExtensiveKeywordList, LAMBDA k : k \notin existing)

\* the states keywords_todo.txt can have after generate_extensive_initial_keywords
ExtensiveTodo(todoF, doneF) ==
    LET new == ExtensiveNew(todoF, doneF) IN
    IF new # <<>>
    THEN {File(JoinLines(o)) : o \in Orders(ToSet(ReadKeywordLines(todoF)) \cup ToSet(new))}
    ELSE {todoF}

GenerateExtensive ==
    /\ LedgerFrame
    /\ todoFile' \in ExtensiveTodo(todoFile, doneFile)
    /\ lastOp' = [op |-> "extensive", kw |-> <<>>]
    /\ UNCHANGED <<doneFile, doneAppends>>

----------------------------------------------------------------------------
(* extract_keywords_from_existing_json; cands: the filtered candidates     *)

ExtractNew(todoF, doneF, cands) ==
    cands \ (ToSet(ReadKeywordLines(doneF)) \cup ToSet(ReadKeywordLines(todoF)))

ExtractTodo(todoF, doneF, cands) ==
    LET new == ExtractNew(todoF, doneF, cands) IN
    IF new # {}
    THEN {File(JoinLines(o)) : o \in Orders(ToSet(ReadKeywordLines(todoF)) \cup new)}
    ELSE {todoF}

ExtractFromJson ==
    /\ LedgerFrame
    /\ \E cands \in SUBSET JsonKeywords : todoFile' \in ExtractTodo(todoFile, doneFile, cands)
    /\ lastOp' = [op |-> "extract", kw |-> <<>>]
    /\ UNCHANGED <<doneFile, doneAppends>>

----------------------------------------------------------------------------
(* generate_medicine_keywords; c1: candidates of the JSON extraction, sel: *)
(* the keywords the similarity filter selects                              *)

MedicineTodo(todoF, doneF, c1, sel) ==
    LET done == ToSet(ReadKeywordLines(doneF))
        todo == ToSet(ReadKeywordLines(todoF))
        selected == sel \ (done \cup todo)
    IN  IF ExtensiveNew(todoF, doneF) # <<>> THEN ExtensiveTodo(todoF, doneF)
        ELSE IF ExtractNew(todoF, doneF, c1) # {} THEN ExtractTodo(todoF, doneF, c1)
        ELSE IF selected # {}
             THEN {File(JoinLines(o)) : o \in Orders((todo \cup selected) \ done)}
             ELSE {todoF}

GenerateMedicineKeywords ==
    /\ LedgerFrame
    /\ \E c1 \in SUBSET JsonKeywords, sel \in SUBSET JsonKeywords :
          todoFile' \in MedicineTodo(todoFile, doneFile, c1, sel)
    /\ lastOp' = [op |-> "generate", kw |-> <<>>]
    /\ UNCHANGED <<doneFile, doneAppends>>

----------------------------------------------------------------------------
(* clean_keyword_files *)

\* the states keywords_done.txt can have after clean_keyword_files
CleanDone(doneF) ==
    IF doneF.exists
    THEN {File(JoinLines(o)) : o \in Orders(ToSet(ReadKeywordLines(doneF)))}
    ELSE {doneF}

CleanTodo(todoF, doneF) ==
    LET todo == ReadKeywordLines(todoF)
        unique == UniqueNotIn(todo, ToSet(ReadKeywordLines(doneF)))
    IN  IF todoF.exists /\ Len(todo) # Len(unique) THEN File(JoinLines(unique)) ELSE todoF

CleanKeywordFiles ==
    /\ LedgerFrame
    /\ doneFile' \in CleanDone(doneFile)
    /\ todoFile' = CleanTodo(todoFile, doneFile)
    /\ lastOp' = [op |-> "clean", kw |-> <<>>]
    /\ UNCHANGED doneAppends

----------------------------------------------------------------------------
(* The ledger operations, in any order, from a fresh output directory *)

LedgerInit ==
    /\ todoFile = NoFile
    /\ doneFile = NoFile
    /\ lastOp = [op |-> "none", kw |-> <<>>]
    /\ doneAppends = [k \in KW |-> 0]

LedgerNext ==
    \/ LoadKeywords
    \/ \E k \in KW : UpdateKeywordProgress(k)
    \/ \E k \in KW : UpdateKeywordProgressKilled(k)
    \/ GenerateExtensive
    \/ ExtractFromJson
    \/ GenerateMedicineKeywords
    \/ CleanKeywordFiles

----------------------------------------------------------------------------
(* The deduplicator: fetch_medicine_data's pre-check, save_medicine_data   *)
(* and is_duplicate_medicine, run by the worker threads of the pool.       *)

\* "M<docId>", the ID taken from the link
IdDoc == <<"M", "1">>

\* "MC<digits>", the ID derived from name and company when the link has no docId
IdFallback == <<"M", "C">>

RecordIds == {IdDoc, IdFallback}

\* worker threads that save concurrently
DedupWorkers == 2

\* items handled in the runs the model follows
MaxSaveCalls == 3

DWorkers == 1..DedupWorkers

\* needle in haystack, for Python's str "in"
IsSubstring(needle, hay) ==
    \E i \in 0..(Len(hay) - Len(needle)) :
        \A j \in 1..Len(needle) : hay[i + j] = needle[j]

\* set(f.read().splitlines()), or the empty set when the file does not exist
ReadSeenIds(f) == IF f.exists THEN ToSet(SplitLines(f.text)) ELSE {}

SeenIds == ReadSeenIds(seenFile)

\* html_parser.fetch_medicine_data: the link carries a docId that is already listed
PrecheckSkips(f, id) ==
    /\ id # IdFallback
    /\ f.exists
    /\ IsSubstring(id \o <<NL>>, f.text)

\* a recording that would append the ID without its line end
MarkSeenUnterminated(f, id) == File(f.text \o id)

\* processed_medicine_ids.txt after is_duplicate_medicine has recorded id
MarkSeen(f, id) == File(AppendLine(f.text, id))

\* is_duplicate_medicine's answer from the set it read
IsDuplicate(processed, id) == id \in processed

\* _process_keyword takes an item: fetch_medicine_data, then save_medicine_data
FetchItem(w, id) ==
    /\ DedupFrame
    /\ wpc[w] = "idle"
    /\ saveCalls < MaxSaveCalls
    /\ saveCalls' = saveCalls + 1
    /\ wid' = [wid EXCEPT ![w] = id]
    /\ wres' = [wres EXCEPT ![w] = "none"]
    /\ wpc' = [wpc EXCEPT ![w] = IF PrecheckSkips(seenFile, id) THEN "idle" ELSE "read"]
    /\ UNCHANGED <<seenFile, storeWrites, savedIncr, totalSaved, wsnap, wtmp, wknown,
                   newInRun, marked>>

\* is_duplicate_medicine, lines 177-181: load the processed IDs
DupRead(w) ==
    /\ DedupFrame
    /\ wpc[w] = "read"
    /\ wsnap' = [wsnap EXCEPT ![w] = ReadSeenIds(seenFile)]
    /\ wknown' = [wknown EXCEPT ![w] = wid[w] \in marked]
    /\ wpc' = [wpc EXCEPT ![w] = "decide"]
    /\ UNCHANGED <<seenFile, storeWrites, savedIncr, totalSaved, wid, wtmp, wres,
                   newInRun, marked, saveCalls>>

\* is_duplicate_medicine, lines 183-191: duplicate, or append the ID and report new
DupDecide(w) ==
    /\ DedupFrame
    /\ wpc[w] = "decide"
    /\ IF IsDuplicate(wsnap[w], wid[w])
       THEN /\ wres' = [wres EXCEPT ![w] = "dup"]
            /\ wpc' = [wpc EXCEPT ![w] = "idle"]
            /\ UNCHANGED <<seenFile, newInRun, marked>>
       ELSE /\ seenFile' = MarkSeen(seenFile, wid[w])
            /\ wres' = [wres EXCEPT ![w] = "new"]
            /\ wpc' = [wpc EXCEPT ![w] = "write"]
            /\ newInRun' = [newInRun EXCEPT ![wid[w]] = @ + 1]
            /\ marked' = marked \cup {wid[w]}
    /\ UNCHANGED <<storeWrites, savedIncr, totalSaved, wid, wsnap, wtmp, wknown, saveCalls>>

\* save_medicine_data, lines 297-306: write <id>_<name>.json
WriteJson(w) ==
    /\ DedupFrame
    /\ wpc[w] = "write"
    /\ storeWrites' = [storeWrites EXCEPT ![wid[w]] = @ + 1]
    /\ wpc' = [wpc EXCEPT ![w] = "load"]
    /\ UNCHANGED <<seenFile, savedIncr, totalSaved, wid, wsnap, wtmp, wres, wknown,
                   newInRun, marked, saveCalls>>

\* save_medicine_data, lines 347-373: the write raises, the item counts as failed
WriteFails(w) ==
    /\ DedupFrame
    /\ wpc[w] = "write"
    /\ wpc' = [wpc EXCEPT ![w] = "idle"]
    /\ UNCHANGED <<seenFile, storeWrites, savedIncr, totalSaved, wid, wsnap, wtmp, wres,
                   wknown, newInRun, marked, saveCalls>>

\* save_medicine_data, line 330: self.stats['total_saved'] += 1, the load
SavedLoad(w) ==
    /\ DedupFrame
    /\ wpc[w] = "load"
    /\ wtmp' = [wtmp EXCEPT ![w] = totalSaved]
    /\ wpc' = [wpc EXCEPT ![w] = "store"]
    /\ UNCHANGED <<seenFile, storeWrites, savedIncr, totalSaved, wid, wsnap, wres, wknown,
                   newInRun, marked, saveCalls>>

\* save_medicine_data, line 330: self.stats['total_saved'] += 1, the store
SavedStore(w) ==
    /\ DedupFrame
    /\ wpc[w] = "store"
    /\ totalSaved' = wtmp[w] + 1
    /\ savedIncr' = [savedIncr EXCEPT ![wid[w]] = @ + 1]
    /\ wpc' = [wpc EXCEPT ![w] = "idle"]
    /\ UNCHANGED <<seenFile, storeWrites, wid, wsnap, wtmp, wres, wknown, newInRun,
                   marked, saveCalls>>

\* the process ends (at any point) and a new one starts on the same files
DedupRestart ==
    /\ DedupFrame
    /\ \E w \in DWorkers : wpc[w] # "idle" \/ wres[w] # "none"
    /\ wpc' = [w \in DWorkers |-> "idle"]
    /\ wres' = [w \in DWorkers |-> "none"]
    /\ wknown' = [w \in DWorkers |-> FALSE]
    /\ wsnap' = [w \in DWorkers |-> {}]
    /\ wtmp' = [w \in DWorkers |-> 0]
    /\ totalSaved' = 0
    /\ newInRun' = [i \in RecordIds |-> 0]
    /\ UNCHANGED <<seenFile, storeWrites, savedIncr, wid, marked, saveCalls>>

DedupInit ==
    /\ seenFile = NoFile
    /\ storeWrites = [i \in RecordIds |-> 0]
    /\ savedIncr = [i \in RecordIds |-> 0]
    /\ totalSaved = 0
    /\ wpc = [w \in DWorkers |-> "idle"]
    /\ wid = [w \in DWorkers |-> IdDoc]
    /\ wsnap = [w \in DWorkers |-> {}]
    /\ wtmp = [w \in DWorkers |-> 0]
    /\ wres = [w \in DWorkers |-> "none"]
    /\ wknown = [w \in DWorkers |-> FALSE]
    /\ newInRun = [i \in RecordIds |-> 0]
    /\ marked = {}
    /\ saveCalls = 0

DedupNext ==
    \/ \E w \in DWorkers, id \in RecordIds : FetchItem(w, id)
    \/ \E w \in DWorkers : DupRead(w)
    \/ \E w \in DWorkers : DupDecide(w)
    \/ \E w \in DWorkers : WriteJson(w)
    \/ \E w \in DWorkers : WriteFails(w)
    \/ \E w \in DWorkers : SavedLoad(w)
    \/ \E w \in DWorkers : SavedStore(w)
    \/ DedupRestart

----------------------------------------------------------------------------
(* The daily request counter of search_api, daily_request_count.json.      *)
(* The file is absent, holds {"date", "count"}, or is empty: open(path,    *)
(* 'w') truncates it before json.dump and the close write the new content. *)

\* the limit search_api compares with
DailyLimit == 25000

\* days the model follows; day 0 is a date before the first run
MaxDay == 2

Days == 0..MaxDay

\* calls of search_api the model follows
MaxQuotaCalls == 3

\* worker threads that call search_api concurrently
QuotaWorkers == 2

QWorkers == 1..QuotaWorkers

NoQuotaFile == [state |-> "absent", date |-> 0, count |-> 0]

EmptyQuotaFile == [state |-> "empty", date |-> 0, count |-> 0]

\* json.dump(request_data, f)
QuotaFileOf(rd) == [state |-> "json", date |-> rd.date, count |-> rd.count]

\* request_data of lines 41-48: the stored counter, or 0 for a new day or no file
QuotaRead(f, day) ==
    IF f.state = "json" /\ f.date = day
    THEN [date |-> f.date, count |-> f.count]
    ELSE [date |-> day, count |-> 0]

\* line 51
QuotaRefuses(rd) == rd.count >= DailyLimit

\* line 58
QuotaIncrement(rd) == [rd EXCEPT !.count = @ + 1]

\* the counter files a run can find: none, one of an earlier date, one of today
QuotaFilesAtStart ==
    {NoQuotaFile} \cup
    {QuotaFileOf([date |-> d, count |-> c]) :
        d \in {0, 1}, c \in {0, DailyLimit - 1, DailyLimit}}

\* lines 40-48: load the counter; json.load raises on a file just truncated
QuotaLoad(w) ==
    /\ QuotaFrame
    /\ qpc[w] = "idle"
    /\ quotaCalls < MaxQuotaCalls
    /\ quotaCalls' = quotaCalls + 1
    /\ IF quotaFile.state = "empty"
       THEN /\ qres' = [qres EXCEPT ![w] = "error"]
            /\ UNCHANGED <<qpc, qdata>>
       ELSE /\ qdata' = [qdata EXCEPT ![w] = QuotaRead(quotaFile, today)]
            /\ qres' = [qres EXCEPT ![w] = "none"]
            /\ qpc' = [qpc EXCEPT ![w] = "check"]
    /\ UNCHANGED <<quotaFile, today, admittedOn>>

\* lines 50-58: refuse at the limit, else count the request
QuotaCheck(w) ==
    /\ QuotaFrame
    /\ qpc[w] = "check"
    /\ IF QuotaRefuses(qdata[w])
       THEN /\ qres' = [qres EXCEPT ![w] = "refused"]
            /\ qpc' = [qpc EXCEPT ![w] = "idle"]
            /\ UNCHANGED qdata
       ELSE /\ qdata' = [qdata EXCEPT ![w] = QuotaIncrement(@)]
            /\ qpc' = [qpc EXCEPT ![w] = "open"]
            /\ UNCHANGED qres
    /\ UNCHANGED <<quotaFile, today, admittedOn, quotaCalls>>

\* line 61: open(daily_request_path, 'w') truncates the file
QuotaOpen(w) ==
    /\ QuotaFrame
    /\ qpc[w] = "open"
    /\ quotaFile' = EmptyQuotaFile
    /\ qpc' = [qpc EXCEPT ![w] = "dump"]
    /\ UNCHANGED <<today, qdata, qres, admittedOn, quotaCalls>>

\* line 62 and the end of the with block: the counter is stored, the request goes out
QuotaDump(w) ==
    /\ QuotaFrame
    /\ qpc[w] = "dump"
    /\ quotaFile' = QuotaFileOf(qdata[w])
    /\ qres' = [qres EXCEPT ![w] = "admitted"]
    /\ admittedOn' = [admittedOn EXCEPT ![qdata[w].date] = @ + 1]
    /\ qpc' = [qpc EXCEPT ![w] = "idle"]
    /\ UNCHANGED <<today, qdata, quotaCalls>>

\* datetime.now() moves to the next date
QuotaDayRollover ==
    /\ QuotaFrame
    /\ today < MaxDay
    /\ today' = today + 1
    /\ UNCHANGED <<quotaFile, qpc, qdata, qres, admittedOn, quotaCalls>>

\* no worker is inside search_api
QuotaIdle ==
    /\ today = 1
    /\ qpc = [w \in QWorkers |-> "idle"]
    /\ qdata = [w \in QWorkers |-> [date |-> 0, count |-> 0]]
    /\ qres = [w \in QWorkers |-> "none"]
    /\ quotaCalls = 0

\* the requests of each day so far, as the counter file tells
AdmittedSoFar(f) ==
    [d \in Days |-> IF f.state = "json" /\ f.date = d THEN f.count ELSE 0]

QuotaInit ==
    /\ quotaFile = NoQuotaFile
    /\ admittedOn = AdmittedSoFar(quotaFile)
    /\ QuotaIdle

QuotaNext ==
    \/ \E w \in QWorkers : QuotaLoad(w)
    \/ \E w \in QWorkers : QuotaCheck(w)
    \/ \E w \in QWorkers : QuotaOpen(w)
    \/ \E w \in QWorkers : QuotaDump(w)
    \/ QuotaDayRollover

----------------------------------------------------------------------------
(* A collection process: main() started with --max-iterations 1, its call  *)
(* of collect_medicines, the pool threads that run _process_keyword, the   *)
(* SIGINT handlers and the watchdog thread of utils/safety.py.             *)

\* processes the model follows, one after the other on the same output directory
MaxRuns == 2

\* --max-items of a process; 0 stands for no limit (None)
MaxItemsChoices == {0, 1}

\* the cap of collect_medicines on keywords in flight
MaxParallelKeywords == 10

NoCheckpoint == [exists |-> FALSE, current_keyword |-> <<>>, total_saved |-> 0]

\* checkpoint.json after save_checkpoint(keyword, ...) with the current stats
SaveCheckpoint(keyword, saved) ==
    [exists |-> TRUE, current_keyword |-> keyword, total_saved |-> saved]

Min(a, b) == IF a <= b THEN a ELSE b

\* Python's list[a:b] for 0 <= a, 0 <= b
PySlice(list, a, b) == SubSeq(list, a + 1, Min(b, Len(list)))

\* lines 512-521: the index of the checkpoint's keyword in keywords, else 0
CurrentIndex(ck, kws) ==
    IF ck.exists /\ \E i \in 1..Len(kws) : kws[i] = ck.current_keyword
    THEN (CHOOSE i \in 1..Len(kws) :
             /\ kws[i] = ck.current_keyword
             /\ \A j \in 1..(i-1) : kws[j] # ck.current_keyword) - 1
    ELSE 0

\* a pool thread is inside _process_keyword(k)
Running(k) == task[k] \in {"started", "items"}

\* threading.active_count() > 2: threads besides the main thread and the watchdog
PoolThreadsAlive ==
    \/ cpc \in {"wait", "batch", "finally"} /\ \E k \in KW : task[k] # "none"
    \/ \E k \in KW : Running(k)

\* what a step of a collection process leaves alone
RunFrame ==
    UNCHANGED <<seenFile, storeWrites, savedIncr, wpc, wid, wsnap, wtmp, wres, wknown,
                newInRun, marked, saveCalls, today, qpc, qdata, qres, quotaCalls,
                laterVars>>

\* main() starts: setup_signal_handlers, MedicineCollector(...)
ProcessStart ==
    /\ RunFrame
    /\ mpc = "down"
    /\ runs < MaxRuns
    /\ runs' = runs + 1
    /\ mpc' = "load"
    /\ cpc' = "off"
    /\ max_items' \in MaxItemsChoices
    /\ exitKind' = "none"
    /\ collector_shutdown_requested' = FALSE
    /\ safety_shutdown_requested' = FALSE
    /\ sigints' = 0
    /\ watchdog' = "watching"
    /\ totalSaved' = 0
    /\ keywords' = <<>>
    /\ current_index' = 0
    /\ keywords_to_process' = <<>>
    /\ max_parallel_keywords' = 0
    /\ futures' = {}
    /\ doneBatch' = <<>>
    /\ keyword_results' = {}
    /\ completed_count' = 0
    /\ resumed' = FALSE
    /\ task' = [k \in KW |-> "none"]
    /\ refused' = {}
    /\ lastStarted' = <<>>
    /\ stopped' = {}
    /\ UNCHANGED <<ledgerVars, quotaFile, admittedOn, checkpoint>>

\* main, lines 161-194: load the keywords; generate new ones when there are none
MainLoadKeywords ==
    /\ RunFrame
    /\ UNCHANGED <<lastStarted, stopped>>
    /\ mpc = "load"
    /\ LET l1 == LoadKeywordsList(todoFile, doneFile)
           t1 == LoadKeywordsTodo(todoFile, doneFile)
       IN  IF l1 # <<>>
           THEN /\ keywords' = l1
                /\ todoFile' = t1
                /\ mpc' = "collect"
           ELSE \E c1 \in SUBSET JsonKeywords, sel \in SUBSET JsonKeywords :
                \E t2 \in MedicineTodo(t1, doneFile, c1, sel) :
                    /\ keywords' = LoadKeywordsList(t2, doneFile)
                    /\ todoFile' = LoadKeywordsTodo(t2, doneFile)
                    /\ mpc' = IF keywords' = <<>> THEN "exiting" ELSE "collect"
    /\ lastOp' = [op |-> "load", kw |-> <<>>]
    /\ UNCHANGED <<doneFile, doneAppends, totalSaved, quotaFile, admittedOn, cpc, runs,
                   max_items, exitKind, collector_shutdown_requested,
                   safety_shutdown_requested, sigints, watchdog, current_index,
                   keywords_to_process, max_parallel_keywords, futures, doneBatch,
                   keyword_results, completed_count, resumed, task, refused, checkpoint>>

\* collect_medicines, lines 481-595: restore the checkpoint, cut the keyword list,
\* submit the first keywords
CollectStart ==
    /\ RunFrame
    /\ UNCHANGED <<lastStarted, stopped>>
    /\ mpc = "collect"
    /\ cpc = "off"
    /\ LET ci == CurrentIndex(checkpoint, keywords)
           ktp == PySlice(keywords, ci, Len(keywords))
           mpk == Min(MaxParallelKeywords, Len(ktp))
           queue == IF collector_shutdown_requested THEN {}
                    ELSE ToSet(PySlice(ktp, 0, mpk))
       IN  /\ totalSaved' = IF checkpoint.exists THEN checkpoint.total_saved ELSE 0
           /\ current_index' = ci
           /\ keywords_to_process' = ktp
           /\ max_parallel_keywords' = mpk
           /\ futures' = queue
           /\ task' = [k \in KW |-> IF k \in queue THEN "queued" ELSE task[k]]
    /\ resumed' = checkpoint.exists
    /\ completed_count' = 0
    /\ keyword_results' = {}
    /\ doneBatch' = <<>>
    /\ cpc' = "wait"
    /\ UNCHANGED <<ledgerVars, quotaFile, admittedOn, mpc, runs, max_items, exitKind,
                   collector_shutdown_requested, safety_shutdown_requested, sigints,
                   watchdog, keywords, refused, checkpoint>>

\* lines 599-616: the loop test, then wait(FIRST_COMPLETED) returns the finished futures
CollectWait ==
    /\ RunFrame
    /\ UNCHANGED <<lastStarted, stopped>>
    /\ mpc = "collect"
    /\ cpc = "wait"
    /\ IF futures = {} \/ collector_shutdown_requested
       THEN /\ cpc' = "finally"
            /\ UNCHANGED doneBatch
       ELSE /\ \E k \in futures : task[k] = "done"
            /\ doneBatch' \in Orders({k \in futures : task[k] = "done"})
            /\ cpc' = "batch"
    /\ UNCHANGED <<ledgerVars, totalSaved, quotaFile, admittedOn, mpc, runs, max_items,
                   exitKind, collector_shutdown_requested, safety_shutdown_requested,
                   sigints, watchdog, keywords, current_index, keywords_to_process,
                   max_parallel_keywords, futures, keyword_results, completed_count,
                   resumed, task, refused, checkpoint>>

\* lines 619-656, one round of "for future in done": take the result, move the
\* keyword to Done, count it, test the item budget
CollectHandle ==
    /\ RunFrame
    /\ UNCHANGED <<lastStarted, stopped>>
    /\ mpc = "collect"
    /\ cpc = "batch"
    /\ doneBatch # <<>>
    /\ IF collector_shutdown_requested
       THEN /\ doneBatch' = <<>>
            /\ UNCHANGED <<ledgerVars, futures, keyword_results, completed_count,
                           collector_shutdown_requested>>
       ELSE LET k == Head(doneBatch)
                budget == max_items # 0 /\ totalSaved >= max_items
            IN  /\ futures' = futures \ {k}
                /\ keyword_results' = keyword_results \cup {k}
                /\ todoFile' = UpdateTodo(todoFile, doneFile, k)
                /\ doneFile' = UpdateDone(doneFile, k)
                /\ doneAppends' = IF doneFile' # doneFile
                                  THEN [doneAppends EXCEPT ![k] = @ + 1] ELSE doneAppends
                /\ lastOp' = [op |-> "update", kw |-> k]
                /\ completed_count' = completed_count + 1
                /\ collector_shutdown_requested' = budget
                /\ doneBatch' = IF budget THEN <<>> ELSE Tail(doneBatch)
    /\ UNCHANGED <<totalSaved, quotaFile, admittedOn, mpc, cpc, runs, max_items, exitKind,
                   safety_shutdown_requested, sigints, watchdog, keywords, current_index,
                   keywords_to_process, max_parallel_keywords, resumed, task, refused,
                   checkpoint>>

\* lines 658-683: after the round, leave on a shutdown request, else submit more keywords
CollectRefill ==
    /\ RunFrame
    /\ UNCHANGED <<lastStarted, stopped>>
    /\ mpc = "collect"
    /\ cpc = "batch"
    /\ doneBatch = <<>>
    /\ IF collector_shutdown_requested
       THEN /\ cpc' = "finally"
            /\ UNCHANGED <<futures, task>>
       ELSE LET to_add == max_parallel_keywords - Cardinality(futures)
                next_index == current_index + max_parallel_keywords + completed_count
                new_keywords ==
                    IF to_add > 0
                    THEN PySlice(PySlice(keywords_to_process, max_parallel_keywords,
                                         next_index), 0, to_add)
                    ELSE <<>>
                submit == {k \in ToSet(new_keywords) :
                              k \notin keyword_results /\ k \notin futures}
            IN  /\ futures' = futures \cup submit
                /\ task' = [k \in KW |-> IF k \in submit THEN "queued" ELSE task[k]]
                /\ cpc' = "wait"
    /\ UNCHANGED <<ledgerVars, totalSaved, quotaFile, admittedOn, mpc, runs, max_items,
                   exitKind, collector_shutdown_requested, safety_shutdown_requested,
                   sigints, watchdog, keywords, current_index, keywords_to_process,
                   max_parallel_keywords, doneBatch, keyword_results, completed_count,
                   resumed, refused, checkpoint>>

\* lines 714-755, the finally block: cancel what has not started, save the final
\* checkpoint if futures remain, delete the checkpoint after a complete pass
CollectFinally ==
    /\ RunFrame
    /\ UNCHANGED <<lastStarted, stopped>>
    /\ mpc = "collect"
    /\ cpc = "finally"
    /\ task' = [k \in KW |-> IF k \in futures /\ task[k] = "queued"
                             THEN "cancelled" ELSE task[k]]
    /\ \E final \in IF futures = {} THEN {checkpoint}
                    ELSE {SaveCheckpoint(k, totalSaved) : k \in futures} :
          checkpoint' = IF ~collector_shutdown_requested
                           /\ completed_count = Len(keywords_to_process)
                        THEN NoCheckpoint ELSE final
    /\ cpc' = "ended"
    /\ mpc' = "exiting"
    /\ UNCHANGED <<ledgerVars, totalSaved, quotaFile, admittedOn, runs, max_items,
                   exitKind, collector_shutdown_requested, safety_shutdown_requested,
                   sigints, watchdog, keywords, current_index, keywords_to_process,
                   max_parallel_keywords, futures, doneBatch, keyword_results,
                   completed_count, resumed, refused>>

\* main, lines 218-229 and the interpreter's exit, which joins the pool threads
ProcessExit ==
    /\ RunFrame
    /\ UNCHANGED <<lastStarted, stopped>>
    /\ mpc = "exiting"
    /\ \A k \in KW : ~Running(k)
    /\ mpc' = "down"
    /\ exitKind' = "normal"
    /\ UNCHANGED <<ledgerVars, totalSaved, quotaFile, admittedOn, cpc, runs, max_items,
                   collector_shutdown_requested, safety_shutdown_requested, sigints,
                   watchdog, keywords, current_index, keywords_to_process,
                   max_parallel_keywords, futures, doneBatch, keyword_results,
                   completed_count, resumed, task, refused, checkpoint>>

\* safety.sigint_handler, then force_exit_handler for the second signal
Sigint ==
    /\ RunFrame
    /\ UNCHANGED <<lastStarted, stopped>>
    /\ mpc # "down"
    /\ sigints' = sigints + 1
    /\ IF ~safety_shutdown_requested
       THEN /\ safety_shutdown_requested' = TRUE
            /\ UNCHANGED <<mpc, exitKind>>
       ELSE /\ mpc' = "down"
            /\ exitKind' = "force_exit_handler"
            /\ UNCHANGED safety_shutdown_requested
    /\ UNCHANGED <<ledgerVars, totalSaved, quotaFile, admittedOn, cpc, runs, max_items,
                   collector_shutdown_requested, watchdog, keywords, current_index,
                   keywords_to_process, max_parallel_keywords, futures, doneBatch,
                   keyword_results, completed_count, resumed, task, refused, checkpoint>>

\* safety.watchdog_thread, lines 44-59: it sees the flag and sleeps one second
WatchdogNotice ==
    /\ RunFrame
    /\ UNCHANGED <<lastStarted, stopped>>
    /\ mpc # "down"
    /\ watchdog = "watching"
    /\ safety_shutdown_requested
    /\ watchdog' = "armed"
    /\ UNCHANGED <<ledgerVars, totalSaved, quotaFile, admittedOn, mpc, cpc, runs,
                   max_items, exitKind, collector_shutdown_requested,
                   safety_shutdown_requested, sigints, keywords, current_index,
                   keywords_to_process, max_parallel_keywords, futures, doneBatch,
                   keyword_results, completed_count, resumed, task, refused, checkpoint>>

\* safety.watchdog_thread, lines 60-67: os._exit(1) if other threads are alive
WatchdogFire ==
    /\ RunFrame
    /\ UNCHANGED <<lastStarted, stopped>>
    /\ mpc # "down"
    /\ watchdog = "armed"
    /\ watchdog' = "done"
    /\ IF PoolThreadsAlive
       THEN /\ mpc' = "down"
            /\ exitKind' = "watchdog"
       ELSE UNCHANGED <<mpc, exitKind>>
    /\ UNCHANGED <<ledgerVars, totalSaved, quotaFile, admittedOn, cpc, runs, max_items,
                   collector_shutdown_requested, safety_shutdown_requested, sigints,
                   keywords, current_index, keywords_to_process, max_parallel_keywords,
                   futures, doneBatch, keyword_results, completed_count, resumed, task,
                   refused, checkpoint>>

\* _process_keyword, lines 774-777: a pool thread takes the keyword and saves the
\* checkpoint
TaskStart(k) ==
    /\ RunFrame
    /\ mpc # "down"
    /\ task[k] = "queued"
    /\ checkpoint' = SaveCheckpoint(k, totalSaved)
    /\ task' = [task EXCEPT ![k] = "started"]
    /\ lastStarted' = k
    /\ UNCHANGED stopped
    /\ UNCHANGED <<ledgerVars, totalSaved, quotaFile, admittedOn, mpc, cpc, runs,
                   max_items, exitKind, collector_shutdown_requested,
                   safety_shutdown_requested, sigints, watchdog, keywords, current_index,
                   keywords_to_process, max_parallel_keywords, futures, doneBatch,
                   keyword_results, completed_count, resumed, refused>>

\* _process_keyword, lines 789-813 and 877-883: the shutdown test, then search_api;
\* a refusal of the quota check is caught by "except Exception" and the keyword's
\* statistics are returned
TaskSearch(k) ==
    /\ RunFrame
    /\ UNCHANGED lastStarted
    /\ stopped' = IF collector_shutdown_requested THEN stopped \cup {k} ELSE stopped
    /\ mpc # "down"
    /\ task[k] = "started"
    /\ IF collector_shutdown_requested
       THEN /\ task' = [task EXCEPT ![k] = "done"]
            /\ UNCHANGED <<quotaFile, admittedOn, refused, checkpoint>>
       ELSE LET rd == QuotaRead(quotaFile, today) IN
            IF QuotaRefuses(rd)
            THEN /\ refused' = refused \cup {k}
                 /\ checkpoint' = SaveCheckpoint(k, totalSaved)
                 /\ task' = [task EXCEPT ![k] = "done"]
                 /\ UNCHANGED <<quotaFile, admittedOn>>
            ELSE /\ quotaFile' = QuotaFileOf(QuotaIncrement(rd))
                 /\ admittedOn' = [admittedOn EXCEPT ![rd.date] = @ + 1]
                 /\ \E found \in BOOLEAN :
                       task' = [task EXCEPT ![k] = IF found THEN "items" ELSE "done"]
                 /\ UNCHANGED <<refused, checkpoint>>
    /\ UNCHANGED <<ledgerVars, totalSaved, mpc, cpc, runs, max_items, exitKind,
                   collector_shutdown_requested, safety_shutdown_requested, sigints,
                   watchdog, keywords, current_index, keywords_to_process,
                   max_parallel_keywords, futures, doneBatch, keyword_results,
                   completed_count, resumed>>

\* _process_keyword, lines 816-875, for the one item the search found: the shutdown
\* test with its checkpoint, the budget test, then fetch and save
TaskItem(k) ==
    /\ RunFrame
    /\ UNCHANGED lastStarted
    /\ stopped' = IF collector_shutdown_requested \/ (max_items # 0 /\ totalSaved >= max_items)
                THEN stopped \cup {k} ELSE stopped
    /\ mpc # "down"
    /\ task[k] = "items"
    /\ task' = [task EXCEPT ![k] = "done"]
    /\ IF collector_shutdown_requested
       THEN /\ checkpoint' = SaveCheckpoint(k, totalSaved)
            /\ UNCHANGED totalSaved
       ELSE IF max_items # 0 /\ totalSaved >= max_items
       THEN UNCHANGED <<checkpoint, totalSaved>>
       ELSE /\ \E saved \in BOOLEAN :
                  totalSaved' = IF saved THEN totalSaved + 1 ELSE totalSaved
            /\ UNCHANGED checkpoint
    /\ UNCHANGED <<ledgerVars, quotaFile, admittedOn, mpc, cpc, runs, max_items, exitKind,
                   collector_shutdown_requested, safety_shutdown_requested, sigints,
                   watchdog, keywords, current_index, keywords_to_process,
                   max_parallel_keywords, futures, doneBatch, keyword_results,
                   completed_count, resumed, refused>>

\* no process has run yet and there is no checkpoint
RunInit ==
    /\ mpc = "down"
    /\ cpc = "off"
    /\ runs = 0
    /\ max_items = 0
    /\ exitKind = "none"
    /\ collector_shutdown_requested = FALSE
    /\ safety_shutdown_requested = FALSE
    /\ sigints = 0
    /\ watchdog = "watching"
    /\ keywords = <<>>
    /\ current_index = 0
    /\ keywords_to_process = <<>>
    /\ max_parallel_keywords = 0
    /\ futures = {}
    /\ doneBatch = <<>>
    /\ keyword_results = {}
    /\ completed_count = 0
    /\ resumed = FALSE
    /\ task = [k \in KW |-> "none"]
    /\ refused = {}
    /\ lastStarted = <<>>
    /\ stopped = {}
    /\ checkpoint = NoCheckpoint

RunNext ==
    \/ ProcessStart
    \/ MainLoadKeywords
    \/ CollectStart
    \/ CollectWait
    \/ CollectHandle
    \/ CollectRefill
    \/ CollectFinally
    \/ ProcessExit
    \/ Sigint
    \/ WatchdogNotice
    \/ WatchdogFire
    \/ \E k \in KW : TaskStart(k)
    \/ \E k \in KW : TaskSearch(k)
    \/ \E k \in KW : TaskItem(k)

----------------------------------------------------------------------------
(* checkpoint.json as text.  json.dump writes the opening brace, one entry   *)
(* per key and the closing brace; a token of the text is one of these, with  *)
(* the string or the number of an entry.  A process that is ended while      *)
(* save_checkpoint writes leaves a prefix of the text, open(path, 'w')       *)
(* having emptied the file first.                                            *)

\* bound: the sum of the counters of stats, and processed_count
MaxCount == 1

StatKeys == {"total_searches", "total_found", "total_saved", "failed_items"}

JsonToken(k, s, n) == [key |-> k, str |-> s, num |-> n]

\* the text save_checkpoint(keyword, processed_count, stats) writes
CheckpointText(keyword, processed_count, stats) ==
    << JsonToken("{", <<>>, 0),
       JsonToken("current_keyword", keyword, 0),
       JsonToken("processed_count", <<>>, processed_count),
       JsonToken("total_searches", <<>>, stats["total_searches"]),
       JsonToken("total_found", <<>>, stats["total_found"]),
       JsonToken("total_saved", <<>>, stats["total_saved"]),
       JsonToken("failed_items", <<>>, stats["failed_items"]),
       JsonToken("timestamp", <<"t">>, 0),
       JsonToken("}", <<>>, 0) >>

\* the keys of the dict json.load returns for a text it accepts
JsonKeys(t) == {t[i].key : i \in 2..(Len(t) - 1)}

\* json.load accepts the text: one object, opened, closed, entries in between
JsonValid(t) ==
    /\ Len(t) >= 2
    /\ t[1].key = "{"
    /\ t[Len(t)].key = "}"
    /\ JsonKeys(t) \cap {"{", "}", "?"} = {}

\* a try block that does not look at the keys of what json.load returned
CheckpointLoadsUnlogged(f) == f.exists /\ JsonValid(f.text)

\* load_checkpoint's try block ends without an exception: the file is there,
\* json.load parses it, and the log line finds both keys it formats
CheckpointLoads(f) ==
    /\ f.exists
    /\ JsonValid(f.text)
    /\ {"current_keyword", "timestamp"} \subseteq JsonKeys(f.text)

\* checkpoint.get(key, 0) if checkpoint else 0, for the counters of stats
StatsFrom(f) ==
    [k \in StatKeys |->
        IF CheckpointLoads(f) /\ k \in JsonKeys(f.text)
        THEN (CHOOSE tok \in ToSet(f.text) : tok.key = k).num
        ELSE 0]

\* what a step of the checkpoint file's life leaves alone
CkptFrame ==
    UNCHANGED <<ledgerVars, dedupVars, quotaVars, runVars, crawlVars, fetchVars, poolVars,
                urlVars, idVars>>

\* the process is gone, and with it what it held in memory
CkDown ==
    /\ ckpc' = "down"
    /\ ckLoaded' = NoFile
    /\ ckBackup' = NoFile
    /\ ckStats' = [k \in StatKeys |-> 0]

\* collect_medicines calls load_checkpoint, which renames a file it cannot load,
\* and initialises stats from what it returned
CkLoad ==
    /\ ckpc = "down"
    /\ ckpc' = "loaded"
    /\ ckLoaded' = IF CheckpointLoads(ckFile) THEN ckFile ELSE NoFile
    /\ ckBackup' = IF ckFile.exists /\ ~CheckpointLoads(ckFile) THEN ckFile ELSE NoFile
    /\ ckFile' = IF CheckpointLoads(ckFile) THEN ckFile ELSE NoFile
    /\ ckStats' = StatsFrom(ckFile)
    /\ CkptFrame

\* collect_medicines has computed current_index from the checkpoint it loaded and
\* submits keywords; what the load did is looked at no more
CkBegin ==
    /\ ckpc = "loaded"
    /\ ckpc' = "running"
    /\ ckLoaded' = NoFile
    /\ ckBackup' = NoFile
    /\ UNCHANGED <<ckFile, ckStats>>
    /\ CkptFrame

\* a worker updates one counter of stats
CkCount ==
    /\ ckpc = "running"
    /\ ckStats["total_searches"] + ckStats["total_found"]
         + ckStats["total_saved"] + ckStats["failed_items"] < MaxCount
    /\ \E k \in StatKeys : ckStats' = [ckStats EXCEPT ![k] = @ + 1]
    /\ UNCHANGED <<ckpc, ckLoaded, ckBackup, ckFile>>
    /\ CkptFrame

\* save_checkpoint writes the first n tokens; the process goes on if that is all
\* of the text, and was ended by os._exit or a kill if it is not
CkSave ==
    /\ ckpc = "running"
    /\ \E k \in KW, p \in 0..MaxCount :
         LET t == CheckpointText(k, p, ckStats)
         IN  \E n \in 0..Len(t) :
                /\ ckFile' = File(SubSeq(t, 1, n))
                /\ IF n = Len(t)
                   THEN UNCHANGED <<ckpc, ckLoaded, ckBackup, ckStats>>
                   ELSE CkDown
    /\ CkptFrame

\* the process ends between two writes
CkExit ==
    /\ ckpc \in {"loaded", "running"}
    /\ CkDown
    /\ UNCHANGED ckFile
    /\ CkptFrame

\* between two processes a file that save_checkpoint wrote is damaged: an entry is
\* lost, or a token is overwritten by bytes that are not JSON
CkDamage ==
    /\ ckpc = "down"
    /\ CheckpointLoads(ckFile)
    /\ Len(ckFile.text) = Len(CheckpointText(KA, 0, ckStats))
    /\ \E i \in 1..Len(ckFile.text) :
         \/ /\ i \in 2..(Len(ckFile.text) - 1)
            /\ ckFile' = File(SubSeq(ckFile.text, 1, i - 1)
                                \o SubSeq(ckFile.text, i + 1, Len(ckFile.text)))
         \/ ckFile' = File([ckFile.text EXCEPT ![i] = JsonToken("?", <<>>, 0)])
    /\ UNCHANGED <<ckpc, ckLoaded, ckBackup, ckStats>>
    /\ CkptFrame

\* no process has run and there is no checkpoint
CkptInit ==
    /\ ckpc = "down"
    /\ ckFile = NoFile
    /\ ckBackup = NoFile
    /\ ckLoaded = NoFile
    /\ ckStats = [k \in StatKeys |-> 0]

CkptNext ==
    \/ CkLoad
    \/ CkBegin
    \/ CkCount
    \/ CkSave
    \/ CkExit
    \/ CkDamage

----------------------------------------------------------------------------
(* ID-range mode: crawler/main.py.  A docId is the decimal text of an       *)
(* integer, as str() gives it and int() reads it.                           *)

\* bounds: the docIds --start and --end are drawn from, and the runs of main()
FirstDocId == 8

MaxDocId == 11

MaxCrawlRuns == 2

Digits == <<"0", "1", "2", "3", "4", "5", "6", "7", "8", "9">>

\* str(i) for 0 <= i < 100
Str(i) == IF i < 10 THEN <<Digits[i + 1]>>
          ELSE <<Digits[(i \div 10) + 1], Digits[(i % 10) + 1]>>

\* int(t) for a text of one or two digits
ParseInt(t) == LET d(c) == (CHOOSE k \in 1..10 : Digits[k] = c) - 1
          IN  IF Len(t) = 1 THEN d(t[1]) ELSE 10 * d(t[1]) + d(t[2])

\* [str(x) for x in sorted(int(d) for d in ids)]
SortedByInt(ids) ==
    LET ints == {ParseInt(d) : d \in ids}
        s == CHOOSE f \in [1..Cardinality(ints) -> ints] :
                 \A i, j \in 1..Cardinality(ints) : i < j => f[i] < f[j]
    IN  [i \in 1..Cardinality(ints) |-> Str(s[i])]

\* a computation that would leave out the docId --end
CalculateMissingBelowEnd(start_docid, end_docid, processed) ==
    SortedByInt({Str(i) : i \in start_docid..(end_docid - 1)} \ processed)

\* calculate_missing_docids
CalculateMissingDocids(start_docid, end_docid, processed) ==
    SortedByInt({Str(i) : i \in start_docid..end_docid} \ processed)

\* the lists random.shuffle can leave in the copy shuffle_docids makes
ShuffleDocids(docids) ==
    {[i \in 1..Len(docids) |-> docids[p[i]]] : p \in Permutations(1..Len(docids))}

\* [docid for docid in missing_docids if docid not in invalid_docids]
NotInvalid(docids, invalid) == SelectSeq(docids, LAMBDA d : d \notin invalid)

\* how a call of MedicineFetcher.fetch_medicine_data can end, and what it returns:
\* a record; None at once, the final URL not being a page of the dictionary;
\* None after max_retries attempts that each failed
FetchEndings == {"record", "record_unsaved", "no_record", "retries_exhausted"}

FetchReturn(ending) ==
    IF ending \in {"record", "record_unsaved"} THEN "data" ELSE "None"

\* what a step of main() leaves alone
CrawlFrame ==
    UNCHANGED <<ledgerVars, dedupVars, quotaVars, runVars, ckptVars, fetchVars, poolVars,
                urlVars, idVars>>

\* main() up to the loop: the invalid and the processed docIds are loaded, the
\* missing ones computed, filtered and shuffled
CrawlStart ==
    /\ crpc = "down"
    /\ crRuns < MaxCrawlRuns
    /\ crRuns' = crRuns + 1
    /\ crpc' = "loop"
    /\ \E s \in FirstDocId..MaxDocId : \E e \in s..MaxDocId :
          /\ crArgs' = [start |-> s, end |-> e, resume |-> FALSE, use_missing |-> FALSE]
          /\ calculated' = CalculateMissingDocids(s, e, processedFile)
    /\ missingFile' = [exists |-> TRUE, list |-> calculated']
    /\ invalid_docids' = invalidFile
    /\ processed_docids' = processedFile
    /\ missing_docids' = NotInvalid(calculated', invalidFile)
    /\ shuffled_docids' \in ShuffleDocids(missing_docids')
    /\ idx' = 0
    /\ UNCHANGED <<invalidFile, processedFile, softFailed, resumeFile>>
    /\ CrawlFrame

\* one pass of the loop body, for the docId at idx.  update_missing_docids is not
\* defined: the call raises NameError, the handler of line 201 logs it and the
\* write of crawl_resume.txt is passed over, but for a record that
\* save_medicine_data could not store
CrawlFetch ==
    /\ crpc = "loop"
    /\ idx < Len(shuffled_docids)
    /\ idx' = idx + 1
    /\ LET docid == shuffled_docids[idx + 1]
       IN  IF docid \in invalid_docids
           THEN UNCHANGED <<invalid_docids, invalidFile, processedFile, softFailed,
                            resumeFile>>
           ELSE \E ending \in FetchEndings :
                  IF ending = "record_unsaved"
                  THEN /\ resumeFile' = IF idx % 10 = 0
                                        THEN [exists |-> TRUE, text |-> Str(idx)]
                                        ELSE resumeFile
                       /\ UNCHANGED <<invalid_docids, invalidFile, processedFile,
                                      softFailed>>
                  ELSE IF FetchReturn(ending) = "data"
                  THEN /\ processedFile' = processedFile \cup {docid}
                       /\ UNCHANGED <<invalid_docids, invalidFile, softFailed, resumeFile>>
                  ELSE /\ invalid_docids' = invalid_docids \cup {docid}
                       /\ invalidFile' = invalidFile \cup {docid}
                       /\ softFailed' = IF ending = "retries_exhausted"
                                        THEN softFailed \cup {docid} ELSE softFailed
                       /\ UNCHANGED <<processedFile, resumeFile>>
    /\ UNCHANGED <<crpc, crRuns, crArgs, calculated, processed_docids, missing_docids,
                   shuffled_docids, missingFile>>
    /\ CrawlFrame

\* the loop is over, or the run is interrupted, and main() returns
CrawlEnd ==
    /\ crpc = "loop"
    /\ crpc' = "down"
    /\ UNCHANGED <<crRuns, crArgs, calculated, processed_docids, missing_docids,
                   shuffled_docids, idx, invalid_docids, invalidFile, processedFile,
                   softFailed, resumeFile, missingFile>>
    /\ CrawlFrame

\* main() up to the loop when --resume or --use-missing is given, for the range of
\* the run before: the list of missing_docids.txt is taken in place of the computed
\* one, and the list is cut at the index crawl_resume.txt holds
CrawlRestart(resume, use_missing) ==
    /\ crpc = "down"
    /\ 0 < crRuns
    /\ crRuns < MaxCrawlRuns
    /\ resume \/ use_missing
    /\ crRuns' = crRuns + 1
    /\ crpc' = "loop"
    /\ \E s \in {crArgs.start} : \E e \in {crArgs.end} :
          LET loaded == use_missing /\ missingFile.exists
              computed == CalculateMissingDocids(s, e, processedFile)
              listed == IF loaded THEN missingFile.list ELSE computed
              valid == NotInvalid(listed, invalidFile)
              last_index == ParseInt(resumeFile.text)
              cut == IF resume /\ resumeFile.exists /\ resumeFile.text # <<>>
                        /\ last_index < Len(valid)
                     THEN PySlice(valid, last_index, Len(valid))
                     ELSE valid
          IN  /\ crArgs' = [start |-> s, end |-> e, resume |-> resume,
                            use_missing |-> use_missing]
              /\ calculated' = IF loaded THEN <<>> ELSE computed
              /\ missingFile' = IF loaded THEN missingFile
                                ELSE [exists |-> TRUE, list |-> computed]
              /\ missing_docids' = cut
    /\ invalid_docids' = invalidFile
    /\ processed_docids' = processedFile
    /\ shuffled_docids' \in ShuffleDocids(missing_docids')
    /\ idx' = 0
    /\ UNCHANGED <<invalidFile, processedFile, softFailed, resumeFile>>
    /\ CrawlFrame

\* lines 207-213: Ctrl+C during the loop, in the pass of a docId or in the sleep
\* after it; the handler writes the enumerate index of that pass
CrawlInterrupt ==
    /\ crpc = "loop"
    /\ crpc' = "down"
    /\ \E i \in {idx - 1, idx} \cap (0..(Len(shuffled_docids) - 1)) :
          resumeFile' = [exists |-> TRUE, text |-> Str(i)]
    /\ UNCHANGED <<crRuns, crArgs, calculated, processed_docids, missing_docids,
                   shuffled_docids, idx, invalid_docids, invalidFile, processedFile,
                   softFailed, missingFile>>
    /\ CrawlFrame

\* a fresh data directory
CrawlInit ==
    /\ crpc = "down"
    /\ crRuns = 0
    /\ crArgs = [start |-> FirstDocId, end |-> FirstDocId, resume |-> FALSE,
                 use_missing |-> FALSE]
    /\ calculated = <<>>
    /\ processed_docids = {}
    /\ missing_docids = <<>>
    /\ shuffled_docids = <<>>
    /\ idx = 0
    /\ invalid_docids = {}
    /\ invalidFile = {}
    /\ processedFile = {}
    /\ softFailed = {}
    /\ resumeFile = [exists |-> FALSE, text |-> <<>>]
    /\ missingFile = [exists |-> FALSE, list |-> <<>>]

CrawlNext ==
    \/ CrawlStart
    \/ CrawlFetch
    \/ CrawlEnd

----------------------------------------------------------------------------
(* The three fetch clients and their retry loops: search_api (api/naver_api) *)
(* and fetch_medicine_data (parser/html_parser), called by the pool threads  *)
(* of the collector, and MedicineFetcher.fetch_medicine_data (crawler).      *)
(* Times are in eighths of a second and pass in half seconds.                *)

\* one second, the first backoff_time
Second == 8

\* max_retries
MaxRetries == 3

\* bounds: the threads that fetch, the calls they make, the requests that do not
\* end in a 200
FetchWorkers == 2

MaxFetchCalls == 2

MaxFailures == 3

FWorkers == 1..FetchWorkers

Clients == {"search", "page", "docid"}

\* the least interval each client keeps between the requests of one call
MinInterval(client) ==
    IF client = "search" THEN Second \div 2 ELSE IF client = "page" THEN Second ELSE 0

\* what a request can end in: a status with the Retry-After header of a 429 (no
\* header, seconds, or an HTTP date), or an exception of requests
Responses ==
    [status : {"200", "400", "404", "500", "Timeout", "ConnectionError", "unparsed"},
     retry_after : {<<>>}]
    \cup [status : {"429"}, retry_after : {<<>>, <<"0">>, <<"2">>, <<"W", "e", "d">>}]

\* random.uniform(*delay_range), and random.uniform(5, 10) after a connection error
DelayChoices == {Second, 2 * Second}

\* int(response.headers.get('Retry-After', backoff_time)), in eighths of a second;
\* -1 stands for the ValueError of a text that is not a number
WaitTime(retry_after, backoff) ==
    IF retry_after = <<>> THEN (backoff \div Second) * Second
    ELSE IF \A i \in 1..Len(retry_after) : \E k \in 1..10 : Digits[k] = retry_after[i]
         THEN ParseInt(retry_after) * Second
         ELSE -1

\* Handle, had the page client's retry after a parse error not counted the attempt
HandleUncounted(client, r, retries, backoff) ==
    LET again(sleep, factor2) ==
            [ends |-> "", retry_count |-> retries + 1,
             backoff_time |-> (backoff * factor2) \div 2, sleep |-> sleep]
        return(how) ==
            [ends |-> how, retry_count |-> retries,
             backoff_time |-> backoff, sleep |-> 0]
    IN  CASE client = "search" ->
               IF r.status = "429"
               THEN IF WaitTime(r.retry_after, backoff) < 0
                    THEN return("ValueError")
                    ELSE again(WaitTime(r.retry_after, backoff), 4)
               ELSE IF r.status = "400" THEN return("no items")
               ELSE IF r.status \in {"404", "500"} THEN again(backoff, 4)
               ELSE IF r.status \in {"Timeout", "ConnectionError", "unparsed"}
                    THEN IF retries + 1 >= MaxRetries
                         THEN [again(backoff, 3) EXCEPT !.ends = "no items"]
                         ELSE again(backoff, 3)
               ELSE return("result")
          [] client = "page" ->
               IF r.status = "500" THEN again(backoff, 4)
               ELSE IF r.status \in {"400", "404", "429"} THEN return("None")
               ELSE IF r.status = "unparsed"
                    THEN [again(0, 2) EXCEPT !.retry_count = retries]
               ELSE IF r.status \in {"Timeout", "ConnectionError"}
                    THEN IF retries + 1 >= MaxRetries
                         THEN [again(backoff, 4) EXCEPT !.ends = "None"]
                         ELSE again(backoff, 4)
               ELSE return("data")
          [] client = "docid" ->
               IF r.status = "200" THEN return("data") ELSE again(0, 2)

\* one pass of the retry loop after the response r: how the call ends, if it does,
\* and otherwise the new retry_count and backoff_time and the time slept
Handle(client, r, retries, backoff) ==
    LET again(sleep, factor2) ==
            [ends |-> "", retry_count |-> retries + 1,
             backoff_time |-> (backoff * factor2) \div 2, sleep |-> sleep]
        return(how) ==
            [ends |-> how, retry_count |-> retries,
             backoff_time |-> backoff, sleep |-> 0]
    IN  CASE client = "search" ->
               IF r.status = "429"
               THEN IF WaitTime(r.retry_after, backoff) < 0
                    THEN return("ValueError")
                    ELSE again(WaitTime(r.retry_after, backoff), 4)
               ELSE IF r.status = "400" THEN return("no items")
               ELSE IF r.status \in {"404", "500"} THEN again(backoff, 4)
               ELSE IF r.status \in {"Timeout", "ConnectionError", "unparsed"}
                    THEN IF retries + 1 >= MaxRetries
                         THEN [again(backoff, 3) EXCEPT !.ends = "no items"]
                         ELSE again(backoff, 3)
               ELSE return("result")
          [] client = "page" ->
               IF r.status = "500" THEN again(backoff, 4)
               ELSE IF r.status \in {"400", "404", "429"} THEN return("None")
               ELSE IF r.status = "unparsed" THEN again(0, 2)
               ELSE IF r.status \in {"Timeout", "ConnectionError"}
                    THEN IF retries + 1 >= MaxRetries
                         THEN [again(backoff, 4) EXCEPT !.ends = "None"]
                         ELSE again(backoff, 4)
               ELSE return("data")
          [] client = "docid" ->
               IF r.status = "200" THEN return("data") ELSE again(0, 2)

\* the response is a 429 without Retry-After or a 5xx status
Backoff(r) == r.status \in {"429", "500"} /\ r.retry_after = <<>>

\* what a step of a fetch leaves alone
FetchFrame ==
    UNCHANGED <<ledgerVars, dedupVars, quotaVars, runVars, ckptVars, crawlVars, poolVars,
                urlVars, idVars>>

\* the locals of a call that has not begun or has returned
NoCall == [client |-> "", retry_count |-> 0, backoff_time |-> 0, elapsed |-> 0,
           sleep |-> 0, delays |-> <<>>, resp |-> [status |-> "", retry_after |-> <<>>],
           attempts |-> 0]

\* a thread calls a client: a new Session, retry_count = 0, backoff_time = 1 and
\* last_request_time = getattr(session, 'last_request_time', 0), a time long ago.
\* The crawler and the collector are two programs: their clients do not run in
\* threads of one process.
FetchCall(w) ==
    /\ fpc[w] = "idle"
    /\ fcalls < MaxFetchCalls
    /\ fcalls' = fcalls + 1
    /\ fpc' = [fpc EXCEPT ![w] = "loop"]
    /\ \E c \in Clients :
         /\ \A v \in FWorkers \ {w} :
               fpc[v] # "idle" => (c = "docid") = (call[v].client = "docid")
         /\ call' = [call EXCEPT ![w] = [NoCall EXCEPT !.client = c,
                                                       !.backoff_time = Second,
                                                       !.elapsed = Second]]
    /\ fends' = [fends EXCEPT ![w] = ""]
    /\ UNCHANGED <<ffails, since, gap>>
    /\ FetchFrame

\* the head of the loop: the call returns when the retries are used up; otherwise
\* the thread sleeps what is left of the client's interval, or the random delay
FetchLoop(w) ==
    /\ fpc[w] = "loop"
    /\ call[w].sleep = 0
    /\ IF call[w].retry_count >= MaxRetries
       THEN /\ fpc' = [fpc EXCEPT ![w] = "idle"]
            /\ fends' = [fends EXCEPT ![w] =
                            IF call[w].client = "search" THEN "no items" ELSE "None"]
            /\ call' = [call EXCEPT ![w] = NoCall]
       ELSE /\ fpc' = [fpc EXCEPT ![w] = "request"]
            /\ UNCHANGED fends
            /\ \E d \in DelayChoices :
                 call' = [call EXCEPT
                   ![w].sleep =
                       IF call[w].client = "docid" THEN d
                       ELSE IF call[w].elapsed < MinInterval(call[w].client)
                            THEN MinInterval(call[w].client) - call[w].elapsed ELSE 0,
                   ![w].delays =
                       IF call[w].client = "docid" /\ call[w].retry_count > 0
                       THEN Append(@, [after |-> Backoff(call[w].resp), slept |-> d])
                       ELSE @]
    /\ UNCHANGED <<fcalls, ffails, since, gap>>
    /\ FetchFrame

\* last_request_time = time.time() and session.get(...)
FetchRequest(w) ==
    /\ fpc[w] = "request"
    /\ call[w].sleep = 0
    /\ fpc' = [fpc EXCEPT ![w] = "sent"]
    /\ call' = [call EXCEPT ![w].elapsed = 0, ![w].attempts = @ + 1]
    /\ since' = [c \in DOMAIN since |-> IF c = call[w].client THEN 0 ELSE since[c]]
    /\ gap' = [c \in DOMAIN gap |-> IF c = call[w].client THEN since[c] ELSE gap[c]]
    /\ UNCHANGED <<fcalls, ffails, fends>>
    /\ FetchFrame

\* the request ends and the loop body handles the response
FetchResponse(w) ==
    /\ fpc[w] = "sent"
    /\ \E r \in Responses :
         LET h == Handle(call[w].client, r, call[w].retry_count, call[w].backoff_time)
             cd == IF call[w].client = "docid" /\ r.status = "ConnectionError"
                   THEN 5 * Second ELSE 0
         IN  /\ r.status # "200" => ffails < MaxFailures
             /\ ffails' = IF r.status # "200" THEN ffails + 1 ELSE ffails
             /\ fends' = [fends EXCEPT ![w] = h.ends]
             /\ fpc' = [fpc EXCEPT ![w] = IF h.ends # "" THEN "idle" ELSE "loop"]
             /\ call' = [call EXCEPT ![w] =
                   IF h.ends # "" THEN NoCall
                   ELSE [@ EXCEPT !.retry_count = h.retry_count,
                                  !.backoff_time = h.backoff_time,
                                  !.sleep = h.sleep + cd,
                                  !.resp = r,
                                  !.delays = IF call[w].client # "docid"
                                             THEN Append(@, [after |-> Backoff(r), slept |-> h.sleep])
                                             ELSE @]]
    /\ UNCHANGED <<fcalls, since, gap>>
    /\ FetchFrame

\* half a second passes while a thread sleeps
FetchTick ==
    /\ \E w \in FWorkers : call[w].sleep > 0
    /\ call' = [w \in FWorkers |->
                  [call[w] EXCEPT
                     !.sleep = IF @ > Second \div 2 THEN @ - Second \div 2 ELSE 0,
                     !.elapsed = Min(@ + Second \div 2, Second)]]
    /\ since' = [c \in DOMAIN since |-> Min(since[c] + Second \div 2, Second)]
    /\ UNCHANGED <<fpc, fcalls, ffails, fends, gap>>
    /\ FetchFrame

\* no call is in progress and the latest requests were sent long ago
FetchInit ==
    /\ fcalls = 0
    /\ ffails = 0
    /\ fpc = [w \in FWorkers |-> "idle"]
    /\ call = [w \in FWorkers |-> NoCall]
    /\ fends = [w \in FWorkers |-> ""]
    /\ since = [c \in {"search", "page"} |-> Second]
    /\ gap = [c \in {"search", "page"} |-> Second]

FetchNext ==
    \/ \E w \in FWorkers : FetchCall(w)
    \/ \E w \in FWorkers : FetchLoop(w)
    \/ \E w \in FWorkers : FetchRequest(w)
    \/ \E w \in FWorkers : FetchResponse(w)
    \/ FetchTick


----------------------------------------------------------------------------
(***************************************************************************)
(* The pool of collect_medicines.  A future is named by the position of    *)
(* its keyword in keywords_to_process; the executor starts what was        *)
(* submitted in the order of submission, on at most effective_workers      *)
(* threads.  No shutdown is requested and no item budget is set.           *)
(***************************************************************************)

\* the longest keyword list of a pass
MaxPoolKeywords == 21

\* max_workers and os.cpu_count()
PoolWorkers == 2

\* the largest index in the list of the keyword a checkpoint names
MaxPoolIndex == 1

\* the list load_keywords returns for a keywords_todo.txt of n lines: n different
\* keywords, here named by their numbers
LoadedKeywords(n) == [i \in 1..n |-> i]

\* main, lines 165-171: the list is that of load_keywords or, in the first
\* iteration, the --keywords argument split at the commas, as it was typed
KeywordLists ==
    {LoadedKeywords(n) : n \in 1..MaxPoolKeywords} \cup {<<1, 1>>, <<1, 2, 1>>}

RECURSIVE Ascending(_)
\* the positions of S in the order of the list they are taken from
Ascending(S) ==
    IF S = {} THEN <<>>
    ELSE LET p == CHOOSE x \in S : \A y \in S : x <= y
         IN  <<p>> \o Ascending(S \ {p})

\* [futures.get(f) for f in futures]
FutureKeywords(fs) == {pkeywords[p] : p \in fs}

\* what a step of the pool leaves alone
PoolFrame ==
    UNCHANGED <<ledgerVars, dedupVars, quotaVars, runVars, ckptVars, crawlVars, fetchVars,
                urlVars, idVars>>

\* collect_medicines, lines 495-595: the list is cut at the checkpoint's keyword and
\* its first max_parallel_keywords keywords are submitted
PoolCollect ==
    /\ PoolFrame
    /\ ppc = "off"
    /\ \E kws \in KeywordLists :
       \E ck \in {NoCheckpoint} \cup
                 {SaveCheckpoint(kws[i], 0) : i \in 1..Min(Len(kws), MaxPoolIndex + 1)} :
          LET ci == CurrentIndex(ck, kws)
              ktp == PySlice(kws, ci, Len(kws))
              mpk == Min(MaxParallelKeywords, Len(ktp))
          IN  /\ pindex' = ci
              /\ pkeywords' = ktp
              /\ pcap' = mpk
              /\ pfutures' = 1..mpk
              /\ pqueue' = Ascending(1..mpk)
    /\ ppc' = "wait"
    /\ UNCHANGED <<prunning, pfinished, presults, pcompleted>>

\* ThreadPoolExecutor: an idle thread takes the work item submitted first
PoolTaskStart ==
    /\ PoolFrame
    /\ pqueue # <<>>
    /\ Cardinality(prunning) < Min(PoolWorkers, Len(pkeywords))
    /\ prunning' = prunning \cup {Head(pqueue)}
    /\ pqueue' = Tail(pqueue)
    /\ UNCHANGED <<ppc, pindex, pkeywords, pcap, pfutures, pfinished, presults,
                   pcompleted>>

\* _process_keyword returns, its future is finished
PoolTaskEnd(p) ==
    /\ PoolFrame
    /\ p \in prunning
    /\ prunning' = prunning \ {p}
    /\ pfinished' = pfinished \cup {p}
    /\ UNCHANGED <<ppc, pindex, pkeywords, pcap, pfutures, pqueue, presults, pcompleted>>

\* lines 602-683, one round of the loop: wait returns the finished futures, each is
\* popped and counted, then up to to_add keywords of the slice are submitted
PoolHandle ==
    /\ PoolFrame
    /\ ppc = "wait"
    /\ pfutures # {}
    /\ pfinished # {}
    /\ LET futures1 == pfutures \ pfinished
           results1 == presults \cup FutureKeywords(pfinished)
           completed1 == pcompleted + Cardinality(pfinished)
           to_add == pcap - Cardinality(futures1)
           next_index == pindex + pcap + completed1
           new_keywords ==
               IF to_add > 0
               THEN PySlice(PySlice(pkeywords, pcap, next_index), 0, to_add)
               ELSE <<>>
           submit == {pcap + j : j \in {i \in 1..Len(new_keywords) :
                          /\ new_keywords[i] \notin results1
                          /\ new_keywords[i] \notin FutureKeywords(futures1)
                          /\ \A h \in 1..(i - 1) : new_keywords[h] # new_keywords[i]}}
       IN  /\ pfutures' = futures1 \cup submit
           /\ pqueue' = pqueue \o Ascending(submit)
           /\ presults' = results1
           /\ pcompleted' = completed1
    /\ pfinished' = {}
    /\ UNCHANGED <<ppc, pindex, pkeywords, pcap, prunning>>

\* line 599: the loop ends when futures is empty
PoolEnd ==
    /\ PoolFrame
    /\ ppc = "wait"
    /\ pfutures = {}
    /\ ppc' = "ended"
    /\ UNCHANGED <<pindex, pkeywords, pcap, pfutures, pqueue, prunning, pfinished,
                   presults, pcompleted>>

\* collect_medicines has not been called
PoolInit ==
    /\ ppc = "off"
    /\ pindex = 0
    /\ pkeywords = <<>>
    /\ pcap = 0
    /\ pfutures = {}
    /\ pqueue = <<>>
    /\ prunning = {}
    /\ pfinished = {}
    /\ presults = {}
    /\ pcompleted = 0

PoolNext ==
    \/ PoolCollect
    \/ PoolTaskStart
    \/ \E p \in 1..MaxPoolKeywords : PoolTaskEnd(p)
    \/ PoolHandle
    \/ PoolEnd

----------------------------------------------------------------------------
(***************************************************************************)
(* MedicineFetcher.fetch_medicine_data and the URL its response ends at.   *)
(* A URL is a sequence of pieces of text; a docId is written digit by      *)
(* digit, so that "docId=5" is found in "docId=51" as Python's "in" finds  *)
(* it.                                                                     *)
(***************************************************************************)

\* the calls of fetch_medicine_data
MaxUrlCalls == 2

\* the docIds asked for and the docIds a redirect can lead to
UrlDocIds == {<<"5">>, <<"5", "1">>}

\* the hosts a redirect can lead to
UrlHosts == {"terms.naver.com", "nid.naver.com"}

\* a URL of the host with the docId (<<>> for none) and the two markers, if present
EntryUrl(host, docid, cid, categoryId) ==
    <<"https://", host, "/entry.naver?">>
    \o (IF docid = <<>> THEN <<>> ELSE <<"docId=">> \o docid)
    \o (IF cid THEN <<"&", "cid=51000">> ELSE <<>>)
    \o (IF categoryId THEN <<"&", "categoryId=51000">> ELSE <<>>)

\* the URL of a login page that carries the URL asked for as its return address
LoginUrl(back) == <<"https://", "nid.naver.com", "/login?url=">> \o back

\* Python's "pat in text"
Contains(text, pat) ==
    \E i \in 0..(Len(text) - Len(pat)) : SubSeq(text, i + 1, i + Len(pat)) = pat

\* fetcher.py, line 74
RequestUrl(docid) == EntryUrl("terms.naver.com", docid, TRUE, TRUE)

\* what session.get(url, allow_redirects=True) can give for the docId asked for:
\* the status, whether response.history is empty, response.url with the host, the
\* docId and the markers it really has, and whether the page is a medicine page
\* that _parse_medicine_data can read
UrlResponses(docid) ==
    {[status |-> "200", redirected |-> FALSE, url |-> RequestUrl(docid),
      host |-> "terms.naver.com", docid |-> docid, cid |-> TRUE, categoryId |-> TRUE,
      page |-> pg] : pg \in {"medicine", "other"}}
    \cup {[status |-> "200", redirected |-> TRUE, url |-> EntryUrl(h, d, c, g),
           host |-> h, docid |-> d, cid |-> c, categoryId |-> g, page |-> pg] :
             h \in UrlHosts, d \in UrlDocIds \cup {<<>>}, c \in BOOLEAN, g \in BOOLEAN,
             pg \in {"medicine", "other"}}
    \cup {[status |-> "200", redirected |-> TRUE, url |-> <<"https://", "terms.naver.com">>,
           host |-> "terms.naver.com", docid |-> <<>>, cid |-> FALSE,
           categoryId |-> FALSE, page |-> "other"]}
    \cup {[status |-> "200", redirected |-> TRUE, url |-> LoginUrl(RequestUrl(docid)),
           host |-> "nid.naver.com", docid |-> <<>>, cid |-> FALSE,
           categoryId |-> FALSE, page |-> pg] : pg \in {"medicine", "other"}}
    \cup {[status |-> "404", redirected |-> FALSE, url |-> RequestUrl(docid),
           host |-> "terms.naver.com", docid |-> docid, cid |-> TRUE,
           categoryId |-> TRUE, page |-> "other"]}

\* line 125: f"docId={docid}" in final_url
SameDocId(docid, final_url) == Contains(final_url, <<"docId=">> \o docid)

\* lines 95-160, one pass of the loop after the response r: "retry" for
\* retry_count += 1 and continue, "None" for return None, "record" for the return
\* of the parsed data
Classify(docid, r) ==
    IF r.status # "200" THEN "retry"
    ELSE IF r.redirected /\ (\/ ~Contains(r.url, <<"terms.naver.com">>)
                             \/ r.url = <<"https://", "terms.naver.com">>)
    THEN "retry"
    ELSE IF r.redirected /\ ~SameDocId(docid, r.url) THEN "retry"
    ELSE IF ~Contains(r.url, <<"cid=51000">>) \/ ~Contains(r.url, <<"categoryId=51000">>)
    THEN "None"
    ELSE IF r.page # "medicine" THEN "retry"
    ELSE "record"

\* no call has been made
NoFetching == [pc |-> "idle", docid |-> <<>>, retry_count |-> 0, result |-> "",
               response |-> [status |-> ""]]

\* what a step of fetch_medicine_data leaves alone
UrlFrame ==
    UNCHANGED <<ledgerVars, dedupVars, quotaVars, runVars, ckptVars, crawlVars, fetchVars,
                poolVars, idVars>>

\* fetch_medicine_data(docid) is called
UrlCall(docid) ==
    /\ UrlFrame
    /\ fetching.pc \in {"idle", "returned"}
    /\ urlCalls < MaxUrlCalls
    /\ urlCalls' = urlCalls + 1
    /\ fetching' = [NoFetching EXCEPT !.pc = "loop", !.docid = docid]

\* lines 77-187: the loop test, and one pass with the response the server gives
UrlAttempt ==
    /\ UrlFrame
    /\ fetching.pc = "loop"
    /\ UNCHANGED urlCalls
    /\ IF fetching.retry_count >= MaxRetries
       THEN fetching' = [fetching EXCEPT !.pc = "returned", !.result = "None"]
       ELSE \E r \in UrlResponses(fetching.docid) :
              LET c == Classify(fetching.docid, r)
              IN  fetching' =
                    IF c = "retry"
                    THEN [fetching EXCEPT !.retry_count = @ + 1, !.response = r]
                    ELSE [fetching EXCEPT !.pc = "returned", !.result = c,
                                          !.response = r]

UrlInit ==
    /\ fetching = NoFetching
    /\ urlCalls = 0

UrlNext ==
    \/ \E docid \in UrlDocIds : UrlCall(docid)
    \/ UrlAttempt

----------------------------------------------------------------------------
(***************************************************************************)
(* generate_medicine_id (utils/file_utils.py) as standardize_medicine_data *)
(* calls it.  A text is a sequence of pieces, a URL as above; hash() of a  *)
(* str depends on the key the interpreter draws when the process starts    *)
(* (hash randomization), and is the same within one process.               *)
(***************************************************************************)

\* calls of standardize_medicine_data, processes, days and hash keys considered
MaxIdCalls == 3

MaxIdRuns == 2

MaxIdDay == 2

MaxHashKey == 1

\* hash() gives a signed integer of this many bits
HashBits == 24

\* the records: url, link, korean_name, title, company and the id they carry
IdUrls == {<<>>, EntryUrl("terms.naver.com", <<"5">>, TRUE, TRUE)}

IdLinks == {<<>>, EntryUrl("terms.naver.com", <<"5", "1">>, FALSE, FALSE)}

IdRecords ==
    [id : {<<>>, <<"M", "7">>}, url : IdUrls, link : IdLinks, korean_name : {<<>>, <<"N">>},
     title : {<<"T">>}, company : {<<>>, <<"C">>}]

\* Python's "a or b" on texts
Or(a, b) == IF a # <<>> THEN a ELSE b

\* re.search(r'docId=([^&]+)', url): group 1 of the first match, <<>> for no match
DocIdMatch(url) ==
    LET starts == {i \in 1..(Len(url) - 1) : url[i] = "docId=" /\ url[i + 1] # "&"}
    IN  IF starts = {} THEN <<>>
        ELSE LET i == CHOOSE k \in starts : \A l \in starts : k <= l
                 stops == {j \in (i + 1)..Len(url) : url[j] = "&"}
                 last == IF stops = {} THEN Len(url)
                         ELSE (CHOOSE k \in stops : \A l \in stops : k <= l) - 1
             IN  SubSeq(url, i + 1, last)

\* the decimal digits of n, zero-padded to width: f"{n:0{width}d}"
RECURSIVE Padded(_, _)
Padded(n, width) ==
    IF width = 0 THEN <<>>
    ELSE Padded(n \div 10, width - 1) \o <<Digits[(n % 10) + 1]>>

\* datetime.now().strftime('%Y%m%d') on day d of January 2025
Strftime(d) == <<"2", "0", "2", "5", "0", "1">> \o Padded(d, 2)

IdChars == Digits \o <<"_", "N", "T", "C">>

Ord(c) == CHOOSE k \in 1..Len(IdChars) : IdChars[k] = c

RECURSIVE Power(_, _)
Power(b, e) == IF e = 0 THEN 1 ELSE b * Power(b, e - 1)

\* hash(text) in a process whose key is key: a value of HashBits bits, signed
RECURSIVE Mixed(_, _)
Mixed(text, acc) ==
    IF text = <<>> THEN acc
    ELSE Mixed(Tail(text), (acc * 31 + Ord(Head(text)) + 7) % Power(2, HashBits))

PyHash(text, key) ==
    LET h == Mixed(text, (key * 1000003 + 5381) % Power(2, HashBits))
    IN  IF h >= Power(2, HashBits - 1) THEN h - Power(2, HashBits) ELSE h

Abs(n) == IF n < 0 THEN 0 - n ELSE n

\* file_utils.py, lines 98-120, called on day d in a process whose hash key is key
generate_medicine_id(medicine_data, d, key) ==
    LET url == Or(medicine_data.url, medicine_data.link)
        doc_id_match == DocIdMatch(url)
        name == Or(medicine_data.korean_name, medicine_data.title)
        company == medicine_data.company
        id_base == name \o <<"_">> \o company \o <<"_">> \o Strftime(d)
    IN  IF doc_id_match # <<>> THEN <<"M">> \o doc_id_match
        ELSE <<"MC">> \o Padded(Abs(PyHash(id_base, key)) % 10000000, 7)

\* collector.py, lines 176-179
MedicineId(medicine_data, d, key) ==
    IF medicine_data.id # <<>> THEN medicine_data.id
    ELSE generate_medicine_id(medicine_data, d, key)

IdFrame ==
    UNCHANGED <<ledgerVars, dedupVars, quotaVars, runVars, ckptVars, crawlVars, fetchVars,
                poolVars, urlVars>>

\* a process starts; the interpreter draws the key of str hashes
IdProcessStart ==
    /\ IdFrame
    /\ idRuns < MaxIdRuns
    /\ idRuns' = idRuns + 1
    /\ idKey' \in 0..MaxHashKey
    /\ UNCHANGED <<idDay, idGiven, idCalls>>

\* midnight passes
IdMidnight ==
    /\ IdFrame
    /\ idDay < MaxIdDay
    /\ idDay' = idDay + 1
    /\ UNCHANGED <<idRuns, idKey, idGiven, idCalls>>

\* standardize_medicine_data(medicine_data) determines the ID of a record
IdStandardize(medicine_data) ==
    /\ IdFrame
    /\ 0 < idRuns
    /\ idCalls < MaxIdCalls
    /\ idCalls' = idCalls + 1
    /\ idGiven' = idGiven \cup {<<medicine_data, MedicineId(medicine_data, idDay, idKey)>>}
    /\ UNCHANGED <<idRuns, idKey, idDay>>

IdInit ==
    /\ idRuns = 0
    /\ idKey = 0
    /\ idDay = 1
    /\ idGiven = {}
    /\ idCalls = 0

IdNext ==
    \/ IdProcessStart
    \/ IdMidnight
    \/ \E medicine_data \in IdRecords : IdStandardize(medicine_data)

----------------------------------------------------------------------------
(* The item budget of a run: --max-items and the test of _process_keyword  *)
(* before each item, with the workers of the deduplicator above.           *)

\* the largest --max-items considered
MaxBudget == 2

\* main(): the process is started with --max-items n
BudgetStart(n) ==
    /\ max_items = 0
    /\ saveCalls = 0
    /\ max_items' = n
    /\ UNCHANGED <<ledgerVars, dedupVars, quotaVars, laterVars>>
    /\ UNCHANGED <<mpc, cpc, runs, exitKind, collector_shutdown_requested,
                   safety_shutdown_requested, sigints, watchdog, keywords, current_index,
                   keywords_to_process, max_parallel_keywords, futures, doneBatch,
                   keyword_results, completed_count, resumed, task, refused, lastStarted, stopped,
                   checkpoint>>

\* _process_keyword, lines 824-834: under stats_lock the budget is tested; the lock
\* is released, and the item is fetched and saved
BudgetItem(w, id) ==
    /\ ~(max_items # 0 /\ totalSaved >= max_items)
    /\ FetchItem(w, id)

BudgetNext ==
    \/ \E n \in 1..MaxBudget : BudgetStart(n)
    \/ \E w \in DWorkers, id \in RecordIds : BudgetItem(w, id)
    \/ \E w \in DWorkers : DupRead(w)
    \/ \E w \in DWorkers : DupDecide(w)
    \/ \E w \in DWorkers : WriteJson(w)
    \/ \E w \in DWorkers : WriteFails(w)
    \/ \E w \in DWorkers : SavedLoad(w)
    \/ \E w \in DWorkers : SavedStore(w)

----------------------------------------------------------------------------
(* Specifications *)

\* a fresh output directory and a collector just constructed
Init ==
    /\ LedgerInit /\ DedupInit /\ QuotaInit /\ RunInit
    /\ CkptInit /\ CrawlInit /\ FetchInit /\ PoolInit /\ UrlInit /\ IdInit

\* the ledger operations, in any order
LedgerSpec ==
    /\ Init
    /\ [][LedgerNext]_vars

\* worker threads that fetch and save items, over several processes
DedupSpec ==
    /\ Init
    /\ [][DedupNext]_vars

\* any counter file of an earlier date or of today, no call of search_api in progress
QuotaStart ==
    /\ LedgerInit /\ DedupInit /\ RunInit /\ CkptInit /\ CrawlInit /\ FetchInit
    /\ PoolInit /\ UrlInit /\ IdInit
    /\ quotaFile \in QuotaFilesAtStart
    /\ admittedOn = AdmittedSoFar(quotaFile)
    /\ QuotaIdle

\* worker threads that call search_api
QuotaSpec ==
    /\ QuotaStart
    /\ [][QuotaNext]_vars

\* collection processes, one after the other, on an output directory that is fresh
\* but for the request counter
RunSpec ==
    /\ QuotaStart
    /\ [][RunNext]_vars

\* processes that load, write and leave checkpoint.json, one after the other
CkptSpec ==
    /\ Init
    /\ [][CkptNext]_vars

\* runs of the ID-range crawler, one after the other, on the same data directory
CrawlSpec ==
    /\ Init
    /\ [][CrawlNext]_vars

\* threads that call the fetch clients while time passes
FetchSpec ==
    /\ Init
    /\ [][FetchNext]_vars

\* the calls of one thread, one after the other: the locals of a call are its own
RetryNext ==
    \/ FetchCall(1)
    \/ FetchLoop(1)
    \/ FetchRequest(1)
    \/ FetchResponse(1)
    \/ FetchTick

RetrySpec ==
    /\ Init
    /\ [][RetryNext]_vars

\* runs of the ID-range crawler with and without --resume and --use-missing, some
\* of them interrupted
ResumeNext ==
    \/ CrawlStart
    \/ \E resume, use_missing \in BOOLEAN : CrawlRestart(resume, use_missing)
    \/ CrawlFetch
    \/ CrawlInterrupt
    \/ CrawlEnd

ResumeSpec ==
    /\ Init
    /\ [][ResumeNext]_vars

\* calls of fetch_medicine_data, one after the other
UrlSpec ==
    /\ Init
    /\ [][UrlNext]_vars

\* one pass of collect_medicines over a keyword list, its workers ending in any order
PoolSpec ==
    /\ Init
    /\ [][PoolNext]_vars

\* records standardized in processes that follow one another, on one day or the next
IdSpec ==
    /\ Init
    /\ [][IdNext]_vars

\* one process with an item budget, its workers fetching and saving concurrently
BudgetSpec ==
    /\ Init
    /\ [][BudgetNext]_vars

----------------------------------------------------------------------------
(* Claims *)

\* C1: after update_keyword_progress(k) has returned, k is in Done and not in Todo
C1_LedgerPartition ==
    lastOp.op = "update" => (lastOp.kw \in DoneSet /\ lastOp.kw \notin TodoSet)

\* C2: Todo and Done stay disjoint and no keyword is appended to Done twice
C2_DisjointAppendOnce ==
    /\ TodoSet \cap DoneSet = {}
    /\ \A k \in KW : doneAppends[k] <= 1

\* C3: within one process at most one worker is told that an ID is new
C3_CheckThenMarkAtomic == \A id \in RecordIds : newInRun[id] <= 1

\* C4: no record is written to storage, or counted in total_saved, a second time
C4_AtMostOnceWrite ==
    \A id \in RecordIds : storeWrites[id] <= 1 /\ savedIncr[id] <= 1

\* C5: a check of is_duplicate_medicine that begins after the ID was recorded
\* never reports the ID as new, and a recorded ID stays in the seen set
C5_SeenIdempotent ==
    /\ \A w \in DWorkers : wknown[w] => wres[w] # "new"
    /\ marked \subseteq SeenIds

\* C5 witness: an ID was recorded and a later check of it answered "duplicate"
C5_Witness ==
    \E w \in DWorkers : wknown[w] /\ wres[w] = "dup" /\ wid[w] \in marked

\* C6: a pass that resumes from a checkpoint processes every keyword load_keywords
\* returned, that is, every keyword not yet in Done
C6_ResumeCorrectness ==
    (cpc \in {"wait", "batch", "finally", "ended"} /\ resumed)
        => keywords_to_process = keywords

\* C7: a keyword whose search the daily quota refused is not moved to Done
C7_QuotaStopsRun == \A k \in refused : k \notin DoneSet

\* C8: on no day are more than DailyLimit calls of search_api admitted
C8_DailyQuota == \A d \in Days : admittedOn[d] <= DailyLimit

\* C9: a process is forced to exit only by a second interrupt signal
C9_InterruptProtocol ==
    exitKind \in {"force_exit_handler", "watchdog"} => sigints >= 2

\* C10: when collect_medicines has ended, checkpoint.json is gone if the pass was
\* completed without cancellation, and otherwise names a keyword that is not in Done
C10_CheckpointDeletion ==
    cpc = "ended" =>
        IF ~collector_shutdown_requested /\ completed_count = Len(keywords_to_process)
        THEN ~checkpoint.exists
        ELSE checkpoint.exists /\ checkpoint.current_keyword \notin DoneSet

C12_MissingAndShuffle ==
    crpc = "loop" =>
        /\ {ParseInt(calculated[i]) : i \in 1..Len(calculated)}
             = {n \in crArgs.start..crArgs.end :
                    \A d \in processed_docids : ParseInt(d) # n}
        /\ \A i, j \in 1..Len(calculated) : calculated[i] = calculated[j] => i = j
        /\ Len(shuffled_docids) = Len(missing_docids)
        /\ \A d \in ToSet(missing_docids) \cup ToSet(shuffled_docids) :
             Cardinality({i \in 1..Len(shuffled_docids) : shuffled_docids[i] = d})
               = Cardinality({i \in 1..Len(missing_docids) : missing_docids[i] = d})
        /\ missing_docids = NotInvalid(calculated, invalid_docids \ ToSet(SubSeq(shuffled_docids, 1, idx)))

\* C12 witness: a later run computed the missing docIds of a range with processed
\* docIds inside and outside it, across the step from one digit to two, and the
\* shuffle changed the order
C12_Witness ==
    /\ crpc = "loop"
    /\ \E d \in processed_docids : ParseInt(d) \in crArgs.start..crArgs.end
    /\ \E d \in processed_docids : ParseInt(d) \notin crArgs.start..crArgs.end
    /\ Len(calculated) >= 2
    /\ Len(calculated[1]) < Len(calculated[Len(calculated)])
    /\ shuffled_docids # missing_docids

\* C13: a docId whose fetch ended with the retries exhausted is not put into the
\* invalid set, so that a later run attempts it again
C13_SoftFailureNotInvalid == softFailed \cap invalidFile = {}

\* C14: two consecutive requests of the search client, by whatever calls and threads,
\* are at least 0.5 s apart, and two of the page client at least 1.0 s
C14_GlobalRateFloor ==
    \A c \in {"search", "page"} : gap[c] >= MinInterval(c)

\* C15: within one call, of two attempts in a row that ended in a 429 without
\* Retry-After or in a 5xx status, the second is followed by a longer delay than
\* the first
C15_BackoffGrowth ==
    \A w \in FWorkers : \A i \in 1..(Len(call[w].delays) - 1) :
        (call[w].delays[i].after /\ call[w].delays[i + 1].after)
        => call[w].delays[i].slept < call[w].delays[i + 1].slept

\* C16: after a 429 search_api sleeps the seconds of Retry-After, or backoff_time
\* when the header is absent, adds exactly 1 to retry_count and goes on with the
\* loop; the call does not end on a 429
C16_RateLimitedRetry ==
    [][ \A w \in FWorkers : \A ra \in {<<>>, <<"0">>, <<"2">>, <<"W", "e", "d">>} :
          ( /\ fpc[w] = "sent" /\ fpc'[w] # "sent"
            /\ call[w].client = "search"
            /\ \/ fends'[w] = "ValueError"
               \/ call'[w].resp = [status |-> "429", retry_after |-> ra] )
          => ( /\ fpc'[w] = "loop"
               /\ call'[w].retry_count = call[w].retry_count + 1
               /\ ra = <<>> => call'[w].sleep = call[w].backoff_time
               /\ ra \in {<<"0">>, <<"2">>}
                     => call'[w].sleep = ParseInt(ra) * Second ) ]_vars

\* C17: update_keyword_progress appends the keyword to Done before it rewrites Todo,
\* so that a keyword of Todo is in one of the two ledgers also when the process is
\* ended between the two writes
C17_DoneBeforeTodo ==
    lastOp.op = "update killed" => lastOp.kw \in TodoSet \cup DoneSet

\* C18: no two worker threads are inside an update of a shared counter at the same
\* time: a thread that has loaded total_saved for += 1 stores it before another
\* thread loads it
C18_SingleWriter ==
    \A v, w \in DWorkers : (v # w /\ wpc[v] = "store") => wpc[w] # "store"

\* C19: while workers run, checkpoint.json names the keyword whose _process_keyword
\* call began last; a later save_checkpoint by the worker of a keyword that began
\* earlier (on shutdown, on error) does not put the older keyword in its place
C19_CheckpointNamesLastStarted ==
    (cpc \in {"wait", "batch"} /\ lastStarted # <<>>)
        => (checkpoint.exists /\ checkpoint.current_keyword = lastStarted)

\* C20: in every state of collect_medicines the futures dict has at most
\* max_parallel_keywords = min(10, number of keywords to process) entries, so a list
\* longer than that is never in the pool as a whole, and no two of its entries are
\* for the same keyword
C20_BoundedInFlight ==
    ppc = "wait"
        => /\ pcap = Min(MaxParallelKeywords, Len(pkeywords))
           /\ Cardinality(pfutures) <= pcap
           /\ Len(pkeywords) > MaxParallelKeywords
                 => Cardinality(pfutures) < Len(pkeywords)
           /\ \A p, q \in pfutures : p # q => pkeywords[p] # pkeywords[q]

\* C21: with no cancellation, no item budget and no quota error the loop of
\* collect_medicines ends only when every keyword of keywords_to_process has been
\* submitted and collected: completed_count equals the length of the list and every
\* keyword is in keyword_results, for lists of any length
C21_AllKeywordsCompleted ==
    ppc = "ended"
        => /\ pcompleted = Len(pkeywords)
           /\ presults = ToSet(pkeywords)

\* C22: a 4xx response other than 429 is never followed by another attempt of the
\* same call, in search_api and in the two page fetchers
C22_ClientErrorNotRetried ==
    \A w \in FWorkers :
        fpc[w] \in {"request", "sent"} => call[w].resp.status \notin {"400", "404"}

\* C23: a call of search_api, of the keyword-mode page fetch or of
\* MedicineFetcher.fetch_medicine_data sends at most max_retries requests, whatever
\* the responses and exceptions are: each pass of the retry loop that has sent a
\* request ends the call or adds 1 to retry_count, retry_count never goes down
\* within a call, and no request is sent once it has reached max_retries
C23_BoundedAttempts ==
    /\ [](\A w \in FWorkers : call[w].attempts <= MaxRetries)
    /\ [][ \A w \in FWorkers :
             /\ (fpc[w] = "sent" /\ fpc'[w] # "sent")
                   => \/ fpc'[w] = "idle"
                      \/ call'[w].retry_count = call[w].retry_count + 1
             /\ (fpc[w] # "idle" /\ fpc'[w] # "idle")
                   => call'[w].retry_count >= call[w].retry_count
             /\ fpc'[w] = "request" => call'[w].retry_count < MaxRetries ]_vars

\* C23 witness: a call has sent max_retries requests, each has failed, and the call
\* is at the loop test that ends it
C23_Witness ==
    \E w \in FWorkers :
        /\ fpc[w] = "loop"
        /\ call[w].attempts = MaxRetries
        /\ call[w].retry_count = MaxRetries

\* C24: fetch_medicine_data(docid) returns a record only for a response whose final
\* URL is on terms.naver.com, names the docId asked for and has the markers
\* cid=51000 and categoryId=51000
C24_RecordOnlyFromOwnPage ==
    (fetching.pc = "returned" /\ fetching.result = "record")
        => /\ fetching.response.host = "terms.naver.com"
           /\ fetching.response.docid = fetching.docid
           /\ fetching.response.cid
           /\ fetching.response.categoryId

\* C25: when a run is started with --resume after a run that left an offset, the
\* docIds before the offset in the shuffled list of that run, which it attempted,
\* are not attempted again, and every docId at or after the offset that is still
\* neither processed nor invalid is in the list of the new run
C25_ResumeSkipsNothing ==
    [][ ( /\ crpc = "down" /\ crpc' = "loop"
          /\ crArgs'.resume /\ ~crArgs'.use_missing
          /\ resumeFile.exists )
        => LET offset == ParseInt(resumeFile.text)
               before == ToSet(SubSeq(shuffled_docids, 1, offset))
               after == ToSet(SubSeq(shuffled_docids, offset + 1, Len(shuffled_docids)))
           IN  /\ before \cap ToSet(shuffled_docids') = {}
               /\ after \ (processedFile \cup invalidFile)
                     \subseteq ToSet(shuffled_docids') ]_vars

\* C26: no docId is both in invalid_docids.txt and among the processed docIds
C26_InvalidProcessedDisjoint ==
    invalidFile \cap processedFile = {}

\* C27: the ID determined for a record is the same at every call, in every process
\* and on every day: no record was ever given two different IDs
C27_StableId ==
    \A p, q \in idGiven : p[1] = q[1] => p[2] = q[2]

\* C28: when max_items is set, stats['total_saved'] is at no point of a run above
\* max_items, however the workers' budget tests and saves interleave
C28_BudgetNotExceeded ==
    max_items # 0 => totalSaved <= max_items

\* C29: every ID in processed_medicine_ids.txt has a stored record: once the write
\* of a record that is_duplicate_medicine reported new has failed, or the process
\* has ended before it, the ID is no longer in the file
C29_SeenHasRecord ==
    \A id \in RecordIds :
        (id \in SeenIds /\ ~(\E w \in DWorkers : wpc[w] = "write" /\ wid[w] = id))
            => storeWrites[id] > 0

\* C30: no step moves to keywords_done.txt a keyword whose worker returned before it
\* had attempted every item, because the item budget was reached or a shutdown was
\* requested
C30_StoppedNotDone ==
    [][\A k \in stopped :
          ~(  /\ doneFile'.exists
              /\ k \in ToSet(SplitLines(doneFile'.text))
              /\ ~(doneFile.exists /\ k \in ToSet(SplitLines(doneFile.text))))]_vars

====
